---- MODULE Spec2Model ----
(***************************************************************************)
(* Model of the NASM code generator of casm (generate_nasm and the         *)
(* functions it calls).  One generation run is a sequence of steps over    *)
(* the AST: the call registration pass, the data-section pass, the fixed   *)
(* header, and per top-level node the label line, one step per statement   *)
(* of the block and the end-of-function handling.  The emitted file is the *)
(* sequence `out` of text lines (without the newline), diagnostics go to   *)
(* `err`.  A node chain (the `next` links) is a sequence; a null pointer   *)
(* is the empty chain.                                                     *)
(***************************************************************************)
EXTENDS Integers, Sequences, FiniteSets, TLC

VARIABLES
  ast,             \* the top-level chain handed to generate_nasm (mutated in place)
  function_calls,  \* FunctionCall function_calls[]; its length is function_call_count
  string_infos,    \* StringInfo string_infos[]; its length is string_info_count
  string_counter,  \* int string_counter
  out,             \* lines written to fp so far
  err,             \* lines written to stderr so far
  pc,              \* position in generate_nasm
  cur,             \* index of `current` in the top-level chain (1-based)
  stmt,            \* index of generate_block's `current` in the block (0: label line not yet written)
  ip,              \* line of `out` the machine that runs the emitted text is at (0: not started)
  visited,         \* lines of `out` that machine has executed
  runs,            \* the calls of generate_nasm in this process: the chain handed in and the file written
  heap,            \* ASTNode objects by address (1..Len(heap); 0 is NULL) with their next, prev, left and right
  lex              \* the lexer's call: source_code, its index i and the token list from head

vars == <<ast, function_calls, string_infos, string_counter, out, err, pc, cur, stmt, ip, visited, runs, heap, lex>>

\* ---------------------------------------------------------------- bounds
MaxFuncs == 3   \* top-level nodes of an input program
MaxStmts == 2   \* statements of an input program, all blocks together
MaxUnits == 3    \* characters and escape pairs of a literal of an input program
MaxSysParams == 8  \* parameters of the syscall of an input program of SpecSys
MaxLenParams == 4  \* parameters of the syscall of an input program of SpecParamLen
MaxRuns == 3     \* calls of generate_nasm in one process
MaxEdges == 101   \* call statements, each an edge of its own, of the long program of SpecEdges
MaxLiterals == 101   \* string literals of the long program of SpecStrings
MaxPieces == 3       \* pieces a source text of SpecLex is put together from
MaxParams == 2  \* parameters of a syscall of an input program

\* ------------------------------------------------------- program constants
MAX_CALLS == 100
MAX_STRINGS == 100

\* ---------------------------------------------------------------- helpers
Min(S) == CHOOSE x \in S : \A y \in S : x <= y
Max(S) == CHOOSE x \in S : \A y \in S : x >= y

\* strcmp(a, b) == 0
StrEq(a, b) == a = b

\* s[i] of a C string, 0-based
CharAt(s, i) == SubSeq(s, i + 1, i + 1)

\* ------------------------------------------------------------- AST nodes
\* new_ast_node: type, value, and null left/right (next is the chain itself)
new_ast_node(type, value) == [type |-> type, value |-> value, left |-> <<>>, right |-> <<>>]

\* parse_statement, call(...) branch: left is the callee operand when given
CallStmt(callee) == [new_ast_node("CALL", "call") EXCEPT !.left = <<new_ast_node("LABEL", callee)>>]
CallNoOperand == new_ast_node("CALL", "call")

\* parse_statement, return branch
ReturnStmt == new_ast_node("RETURN", "return")

\* parse_statement, move/add/sub/compare branch
BinaryStmt(type, value, dst, src) == [new_ast_node(type, value) EXCEPT !.left = <<dst>>, !.right = <<src>>]
MoveStmt(dst, src) == BinaryStmt("MOVE", "move", dst, src)

\* parse_statement, jump branch
JumpStmt(type, value, target) == [new_ast_node(type, value) EXCEPT !.left = <<new_ast_node("LABEL", target)>>]

\* parse_statement, syscall branch: left is the head of the parameter chain
SysCallStmt(params) == [new_ast_node("SYS_CALL", "syscall") EXCEPT !.left = params]

\* parse_block / parse_label: a LABEL node owning a LBRACE node owning the statement chain
BlockNode(stmts) == [new_ast_node("LBRACE", "{") EXCEPT !.left = stmts]
LabelNode(name, stmts) == [new_ast_node("LABEL", name) EXCEPT !.left = <<BlockNode(stmts)>>]

IsFunction(node) == node.type = "LABEL"
HasBlock(node) == node.left # <<>> /\ node.left[1].type = "LBRACE"
BlockOf(node) == IF HasBlock(node) THEN node.left[1].left ELSE <<>>

\* ------------------------------------------------- call-edge bookkeeping
\* registration that does not look for an existing record of the pair
register_function_call_NoLookup(calls, caller_func, callee_func) ==
  [calls |-> Append(calls, [caller_func |-> caller_func,
                            callee_func |-> callee_func,
                            return_label |-> "__backto_" \o caller_func \o "_" \o ToString(Len(calls)),
                            used |-> 0]),
   index |-> Len(calls),
   diag |-> <<>>]

\* register_function_call: [calls, index, diag]; index is the C (0-based) index, -1 when full
register_function_call(calls, caller_func, callee_func) ==
  LET hits == {i \in 1..Len(calls) : /\ StrEq(calls[i].caller_func, caller_func)
                                     /\ StrEq(calls[i].callee_func, callee_func)}
  IN  IF hits # {}
      THEN [calls |-> calls, index |-> Min(hits) - 1, diag |-> <<>>]
      ELSE IF Len(calls) >= MAX_CALLS
      THEN [calls |-> calls, index |-> -1, diag |-> <<"Too many function calls!">>]
      ELSE [calls |-> Append(calls, [caller_func |-> caller_func,
                                     callee_func |-> callee_func,
                                     return_label |-> "__backto_" \o caller_func \o "_" \o ToString(Len(calls)),
                                     used |-> 0]),
            index |-> Len(calls),
            diag |-> <<>>]

\* generate_return_label, the label for the index r that registration returned
ReturnLabelOf(r) ==
  [calls |-> r.calls,
   label |-> IF r.index = -1 THEN "__error_label" ELSE r.calls[r.index + 1].return_label,
   diag |-> r.diag]

\* generate_return_label: [calls, label, diag]
generate_return_label(calls, caller_func, callee_func) ==
  ReturnLabelOf(register_function_call(calls, caller_func, callee_func))

\* generate_nasm, first pass: the registration result r joined to the diagnostics so far
Registered(diag, r) == [calls |-> r.calls, diag |-> diag \o r.diag]

\* generate_nasm, first pass, one statement of a function's block
RegisterStmt(acc, func_name, s) ==
  IF s.type = "CALL" /\ s.left # <<>>
  THEN Registered(acc.diag, register_function_call(acc.calls, func_name, s.left[1].value))
  ELSE acc

\* generate_nasm, first pass, the inner loop over one function's statements
RECURSIVE RegisterBlock(_, _, _)
RegisterBlock(acc, func_name, stmts) ==
  IF stmts = <<>> THEN acc
  ELSE CHOOSE r \in {RegisterBlock(a, func_name, Tail(stmts)) :
                       a \in {RegisterStmt(acc, func_name, Head(stmts))}} : TRUE

\* ------------------------------------------------------------ string table
\* enum TokenType: the number printed for a node kind
TokenTypeNumber(type) ==
  CASE type = "MOVE" -> 0 [] type = "ADD" -> 1 [] type = "SUB" -> 2 [] type = "COMPARE" -> 3
    [] type = "JUMP" -> 4 [] type = "JUMP_EQUAL" -> 5 [] type = "JUMP_NOT_EQUAL" -> 6
    [] type = "RETURN" -> 7 [] type = "CALL" -> 8 [] type = "SYS_CALL" -> 9
    [] type = "LABEL_KW" -> 10 [] type = "LABEL" -> 11 [] type = "IDENTIFIER" -> 12
    [] type = "NUMBER" -> 13 [] type = "STRING" -> 14 [] type = "STRLEN" -> 15
    [] type = "LPAREN" -> 16 [] type = "RPAREN" -> 17 [] type = "LBRACE" -> 18
    [] type = "RBRACE" -> 19 [] type = "COMMA" -> 20 [] type = "SEMICOLON" -> 21
    [] OTHER -> 22

\* a table that is looked up by the first two characters of the text
translate_register_Prefix(reg) ==
  CASE SubSeq(reg, 1, 2) = "&1" -> "eax" [] SubSeq(reg, 1, 2) = "&2" -> "ebx"
    [] SubSeq(reg, 1, 2) = "&3" -> "ecx" [] SubSeq(reg, 1, 2) = "&4" -> "edx"
    [] SubSeq(reg, 1, 2) = "&5" -> "esi" [] SubSeq(reg, 1, 2) = "&6" -> "edi"
    [] SubSeq(reg, 1, 2) = "&7" -> "ebp" [] OTHER -> reg

\* translate_register
translate_register(reg) ==
  CASE reg = "&1" -> "eax" [] reg = "&2" -> "ebx" [] reg = "&3" -> "ecx" [] reg = "&4" -> "edx"
    [] reg = "&5" -> "esi" [] reg = "&6" -> "edi" [] reg = "&7" -> "ebp" [] OTHER -> reg

\* len >= 2 && s[0] == '"' && s[len - 1] == '"'
IsQuoted(s) == Len(s) >= 2 /\ CharAt(s, 0) = "\"" /\ CharAt(s, Len(s) - 1) = "\""

\* calculate_string_length, the while loop from index i with actual_len so far
RECURSIVE ScanLength(_, _, _)
ScanLength(s, i, actual_len) ==
  IF ~(i < Len(s) - 1) THEN actual_len
  ELSE IF CharAt(s, i) = "\\"
       THEN IF i + 1 < Len(s) - 1 THEN ScanLength(s, i + 2, actual_len + 1)
                                  ELSE ScanLength(s, i + 1, actual_len)
       ELSE ScanLength(s, i + 1, actual_len + 1)

\* a length that takes every character between the quotes as one byte
calculate_string_length_NoEscapes(string_value) ==
  IF IsQuoted(string_value) THEN Len(string_value) - 2 ELSE Len(string_value)

calculate_string_length(string_value) ==
  IF IsQuoted(string_value) THEN ScanLength(string_value, 1, 0) ELSE Len(string_value)

\* the label add_string_info makes from the counter
StrLabel(counter) == "str_" \o ToString(counter)

\* interning that reuses the label of an earlier literal of the same text
add_string_info_Reuse(infos, counter, string_value) ==
  LET same == {i \in 1..Len(infos) : infos[i].string_value = string_value}
  IN  IF same # {}
      THEN [infos |-> infos, counter |-> counter, label |-> infos[Min(same)].label, null |-> FALSE,
            diag |-> <<>>]
      ELSE [infos |-> Append(infos, [label |-> StrLabel(counter),
                                     length |-> calculate_string_length(string_value),
                                     string_value |-> string_value]),
            counter |-> counter + 1, label |-> StrLabel(counter), null |-> FALSE, diag |-> <<>>]

\* add_string_info on the table (infos, counter): [infos, counter, label, null, diag]
add_string_info(infos, counter, string_value) ==
  IF Len(infos) >= MAX_STRINGS
  THEN [infos |-> infos, counter |-> counter, label |-> "(null)", null |-> TRUE,
        diag |-> <<"Too many strings in the program!">>]
  ELSE [infos |-> Append(infos, [label |-> StrLabel(counter),
                                 length |-> calculate_string_length(string_value),
                                 string_value |-> string_value]),
        counter |-> counter + 1, label |-> StrLabel(counter), null |-> FALSE, diag |-> <<>>]

\* find_string_length
find_string_length(infos, label) ==
  LET hits == {i \in 1..Len(infos) : StrEq(infos[i].label, label)}
  IN  IF hits # {} THEN infos[Min(hits)].length ELSE 0

\* the data declaration line written for a literal
DbLine(label, string_value) == "    " \o label \o " db " \o string_value \o ", 0"

\* The generator's tables and streams threaded through a pass:
\* g = [infos, counter, calls, out, err]
Emit(g, lines) == [g EXCEPT !.out = g.out \o lines]
Warn(g, lines) == [g EXCEPT !.err = g.err \o lines]

\* the table after add_string_info returned a, with the literal's db line written
Declared(g, a, string_value) ==
  [g EXCEPT !.infos = a.infos, !.counter = a.counter,
            !.out = g.out \o <<DbLine(a.label, string_value)>>,
            !.err = g.err \o a.diag]

\* interning that declares the literal and leaves the node as it was
Interned_KeepNode(g, node, a) == [g |-> Declared(g, a, node.value), node |-> node]

\* collect_strings: the node rewritten to a reference to the label that a carries
Interned(g, node, a) ==
  [g |-> Declared(g, a, node.value), node |-> [node EXCEPT !.value = a.label, !.type = "LABEL"]]

\* collect_strings, the body of `if (... TOKEN_STRING)` with the quote test:
\* intern the literal, write its db line, rewrite the node to a label reference
InternOperand(g, node) ==
  IF node.type = "STRING" /\ IsQuoted(node.value)
  THEN Interned(g, node, add_string_info(g.infos, g.counter, node.value))
  ELSE [g |-> g, node |-> node]

\* a chain result t with node put in front of it
Prepend(node, t) == [g |-> t.g, chain |-> <<node>> \o t.chain]

\* collect_strings, the loop over a syscall's parameter chain
RECURSIVE CollectParams(_, _)
CollectParamsAfter(h, rest) == Prepend(h.node, CollectParams(h.g, rest))
CollectParams(g, params) ==
  IF params = <<>> THEN [g |-> g, chain |-> <<>>]
  ELSE CollectParamsAfter(InternOperand(g, Head(params)), Tail(params))

\* collect_strings: statement s with its move source or its parameter chain replaced
WithSource(s, h) == [g |-> h.g, node |-> [s EXCEPT !.right = <<h.node>>]]
WithParams(s, t) == [g |-> t.g, node |-> [s EXCEPT !.left = t.chain]]

\* collect_strings, one statement of a block
CollectStmt(g, s) ==
  IF s.type = "MOVE" /\ s.right # <<>> /\ s.right[1].type = "STRING"
  THEN WithSource(s, InternOperand(g, s.right[1]))
  ELSE IF s.type = "SYS_CALL"
  THEN WithParams(s, CollectParams(g, s.left))
  ELSE [g |-> g, node |-> s]

\* collect_strings, the loop over a block's statement chain; h is the value
\* that the statement at the head has left, the rest is scanned from it
RECURSIVE CollectBlock(_, _)
CollectBlockAfter(h, rest) == Prepend(h.node, CollectBlock(h.g, rest))
CollectBlock(g, stmts) ==
  IF stmts = <<>> THEN [g |-> g, chain |-> <<>>]
  ELSE CHOOSE r \in {CollectBlockAfter(h, Tail(stmts)) : h \in {CollectStmt(g, Head(stmts))}} : TRUE

\* collect_strings: function node n with its block's chain replaced
WithBlock(n, b) == [g |-> b.g, node |-> [n EXCEPT !.left = <<BlockNode(b.chain)>>]]

\* collect_strings, one node of the top-level chain
CollectNode(g, n) ==
  IF IsFunction(n) /\ HasBlock(n)
  THEN WithBlock(n, CollectBlock(g, BlockOf(n)))
  ELSE [g |-> g, node |-> n]

\* collect_strings, the loop over the top-level chain; h is the value that
\* the node at the head has left, the rest is scanned from it
RECURSIVE CollectTop(_, _)
CollectTopAfter(h, rest) == Prepend(h.node, CollectTop(h.g, rest))
CollectTop(g, nodes) ==
  IF nodes = <<>> THEN [g |-> g, chain |-> <<>>]
  ELSE CHOOSE r \in {CollectTopAfter(h, Tail(nodes)) : h \in {CollectNode(g, Head(nodes))}} : TRUE

\* collect_strings: the blank line that ends the data section
EndDataSection(r) == [g |-> Emit(r.g, <<"">>), chain |-> r.chain]

\* a pass that goes on from the counter and the table it finds
collect_strings_NoReset(g, nodes) ==
  EndDataSection(CollectTop(Emit(g, <<"section .data">>), nodes))

\* collect_strings
collect_strings(g, nodes) ==
  EndDataSection(CollectTop(Emit([g EXCEPT !.counter = 0, !.infos = <<>>], <<"section .data">>), nodes))

\* -------------------------------------------------------- statement emitter
\* process_string_literal: [g, label]
Literal(g, a, string_value) == [g |-> Declared(g, a, string_value), label |-> a.label]
process_string_literal(g, string_value) ==
  Literal(g, add_string_info(g.infos, g.counter, string_value), string_value)

MovLine(dst, src) == "    mov " \o dst \o ", " \o src

\* a backward search that looks at the statement just before only
StrlenCandidates_Adjacent(stmts, k) ==
  {j \in 1..(k - 1) : /\ j = k - 1
                      /\ stmts[j].type = "MOVE"
                      /\ stmts[j].right # <<>>
                      /\ stmts[j].right[1].type \in {"STRING", "LABEL"}}

\* handle_move, the backward search along prev from statement k of the block:
\* the indices of earlier moves whose source is a string or a label
StrlenCandidates(stmts, k) ==
  {j \in 1..(k - 1) : /\ stmts[j].type = "MOVE"
                      /\ stmts[j].right # <<>>
                      /\ stmts[j].right[1].type \in {"STRING", "LABEL"}}

\* a strlen move that takes the farthest candidate of the backward search
MoveStrlen_Farthest(g, stmts, dst, c) ==
  IF c # {}
  THEN Emit(g, <<MovLine(dst, ToString(find_string_length(g.infos, stmts[Min(c)].right[1].value)))>>)
  ELSE Emit(Warn(g, <<"Warning: No previous string found for strlen">>), <<MovLine(dst, "0")>>)

\* handle_move, strlen source: c are the candidates of the backward search
MoveStrlen(g, stmts, dst, c) ==
  IF c # {}
  THEN Emit(g, <<MovLine(dst, ToString(find_string_length(g.infos, stmts[Max(c)].right[1].value)))>>)
  ELSE Emit(Warn(g, <<"Warning: No previous string found for strlen">>), <<MovLine(dst, "0")>>)

\* handle_move, string source: p is what process_string_literal returned
MoveLiteral(dst, p) == Emit(p.g, <<MovLine(dst, p.label)>>)

\* handle_move, with both operands present
MoveOperands(g, stmts, k, dst, src) ==
  IF src.type = "STRLEN" THEN MoveStrlen(g, stmts, dst, StrlenCandidates(stmts, k))
  ELSE IF src.type = "NUMBER" THEN Emit(g, <<MovLine(dst, src.value)>>)
  ELSE IF src.type = "STRING" THEN MoveLiteral(dst, process_string_literal(g, src.value))
  ELSE Emit(g, <<MovLine(dst, translate_register(src.value))>>)

\* handle_move for statement k of the block
handle_move(g, stmts, k) ==
  IF stmts[k].left = <<>> \/ stmts[k].right = <<>> THEN g
  ELSE MoveOperands(g, stmts, k, translate_register(stmts[k].left[1].value), stmts[k].right[1])

\* GENERATE_BINARY_OP
GenerateBinaryOp(g, op, left, right) ==
  IF right.type = "NUMBER"
  THEN Emit(g, <<"    " \o op \o " " \o translate_register(left.value) \o ", " \o right.value>>)
  ELSE Emit(g, <<"    " \o op \o " " \o translate_register(left.value) \o ", "
                        \o translate_register(right.value)>>)

\* reg_map of process_syscall_parameters (0-based index)
RegMap(i) == <<"eax", "ebx", "ecx", "edx", "esi", "edi", "ebp">>[i + 1]

\* process_syscall_parameters, first loop, one parameter: a string is
\* interned and rewritten to a label reference
Relabelled(c, p) == [g |-> p.g, node |-> [c EXCEPT !.value = p.label, !.type = "LABEL"]]
SysCallString(g, c) ==
  IF c.type = "STRING" THEN Relabelled(c, process_string_literal(g, c.value))
  ELSE [g |-> g, node |-> c]

\* process_syscall_parameters, first loop, over the first n parameters
RECURSIVE SysCallStrings(_, _, _)
SysCallStringsAfter(h, rest, n) == Prepend(h.node, SysCallStrings(h.g, rest, n))
SysCallStrings(g, params, n) ==
  IF params = <<>> \/ n = 0 THEN [g |-> g, chain |-> params]
  ELSE SysCallStringsAfter(SysCallString(g, Head(params)), Tail(params), n - 1)

\* strncmp(value, "str_", 4) == 0
HasStrPrefix(value) == Len(value) >= 4 /\ SubSeq(value, 1, 4) = "str_"

\* process_syscall_parameters, second loop, the inner loop over j: the last
\* parameter that is a str_ label, or the previous string_param_index
\* (1-based, 0 for -1)
StringParamIndex(params, param_count, spi) ==
  LET found == {j \in 1..param_count : params[j].type = "LABEL" /\ HasStrPrefix(params[j].value)}
  IN  IF found # {} THEN Max(found) ELSE spi

\* a parameter rewritten to a number
AsNumber(params, i, text) == [params EXCEPT ![i] = [@ EXCEPT !.value = text, !.type = "NUMBER"]]

\* process_syscall_parameters, second loop from parameter i on
RECURSIVE SysCallStrlens(_, _, _, _, _)
\* a strlen parameter without a string that becomes 0 without a diagnostic
SysCallStrlenAt_Silent(g, params, i, param_count, spi) ==
  IF spi # 0
  THEN SysCallStrlens(g, AsNumber(params, i, ToString(find_string_length(g.infos, params[spi].value))),
                      i + 1, param_count, spi)
  ELSE SysCallStrlens(g, AsNumber(params, i, "0"), i + 1, param_count, spi)

SysCallStrlenAt(g, params, i, param_count, spi) ==
  IF spi # 0
  THEN SysCallStrlens(g, AsNumber(params, i, ToString(find_string_length(g.infos, params[spi].value))),
                      i + 1, param_count, spi)
  ELSE SysCallStrlens(Warn(g, <<"Warning: No string parameter found for syscall with strlen">>),
                      AsNumber(params, i, "0"), i + 1, param_count, spi)
SysCallStrlens(g, params, i, param_count, spi) ==
  IF i > param_count THEN [g |-> g, chain |-> params]
  ELSE IF params[i].type # "STRLEN" THEN SysCallStrlens(g, params, i + 1, param_count, spi)
  ELSE SysCallStrlenAt(g, params, i, param_count, StringParamIndex(params, param_count, spi))

\* process_syscall_parameters, third loop: one mov per parameter
SysCallMoves(params, param_count) ==
  [i \in 1..param_count |->
     IF params[i].type \in {"NUMBER", "LABEL"}
     THEN MovLine(RegMap(i - 1), params[i].value)
     ELSE MovLine(RegMap(i - 1), translate_register(params[i].value))]

\* string_param_index after the first loop (1-based, 0 for -1)
LastStringParam(params, param_count) ==
  LET strs == {j \in 1..param_count : params[j].type = "STRING"}
  IN  IF strs # {} THEN Max(strs) ELSE 0

\* process_syscall_parameters, the moves and the interrupt after the rewriting
SysCallEmit(syscall_node, b, param_count) ==
  [g |-> Emit(b.g, SysCallMoves(b.chain, param_count) \o <<"    int 0x80">>),
   node |-> [syscall_node EXCEPT !.left = b.chain]]

\* process_syscall_parameters, second and third loop after the first returned a
SysCallResolve(syscall_node, a, param_count, spi) ==
  SysCallEmit(syscall_node, SysCallStrlens(a.g, a.chain, 1, param_count, spi), param_count)

\* min(number of parameters, 7)
ParamCount(params) == IF Len(params) < 7 THEN Len(params) ELSE 7

\* process_syscall_parameters: [g, node]
process_syscall_parameters(g, syscall_node) ==
  IF syscall_node.left = <<>> THEN [g |-> g, node |-> syscall_node]
  ELSE SysCallResolve(syscall_node, SysCallStrings(g, syscall_node.left, 7),
                      ParamCount(syscall_node.left),
                      LastStringParam(syscall_node.left, ParamCount(syscall_node.left)))

\* a return that is `ret` in every function
ReturnLine_AlwaysRet(func_name) == "    ret"

\* generate_block, TOKEN_RETURN
ReturnLine(func_name) == IF StrEq(func_name, "main") THEN "    jmp _exit" ELSE "    ret"

\* generate_block, TOKEN_CALL with an operand: r is what generate_return_label returned
CallSite(g, callee, r) ==
  [g EXCEPT !.calls = r.calls, !.err = g.err \o r.diag,
            !.out = g.out \o <<"    jmp " \o callee, r.label \o ":">>]

\* call emission that defines the landing label before the jump
GenerateCall_LabelFirst(g, current, func_name) ==
  IF current.left # <<>>
  THEN Emit(g, <<generate_return_label(g.calls, func_name, current.left[1].value).label \o ":",
                 "    jmp " \o current.left[1].value>>)
  ELSE Emit(g, <<"    int 0x80">>)

\* generate_block, TOKEN_CALL
GenerateCall(g, current, func_name) ==
  IF current.left # <<>>
  THEN CallSite(g, current.left[1].value,
                generate_return_label(g.calls, func_name, current.left[1].value))
  ELSE Emit(g, <<"    int 0x80">>)

\* a statement that is emitted without being rewritten
Kept(current, g) == [g |-> g, node |-> current]

\* generate_block, the cases that need left and right
GenerateBinary(g, stmts, k) ==
  CASE stmts[k].type = "MOVE" -> handle_move(g, stmts, k)
    [] stmts[k].type = "ADD" -> GenerateBinaryOp(g, "add", stmts[k].left[1], stmts[k].right[1])
    [] stmts[k].type = "SUB" -> GenerateBinaryOp(g, "sub", stmts[k].left[1], stmts[k].right[1])
    [] stmts[k].type = "COMPARE" -> GenerateBinaryOp(g, "cmp", stmts[k].left[1], stmts[k].right[1])

\* generate_block, the jump cases
GenerateJump(g, current) ==
  CASE current.type = "JUMP" -> Emit(g, <<"    jmp " \o current.left[1].value>>)
    [] current.type = "JUMP_NOT_EQUAL" -> Emit(g, <<"    jne " \o current.left[1].value>>)
    [] current.type = "JUMP_EQUAL" -> Emit(g, <<"    je " \o current.left[1].value>>)

\* generate_block, one iteration of the loop, for statement k of the block: [g, node]
GenerateStatement(g, stmts, k, func_name) ==
  CASE stmts[k].type \in {"MOVE", "ADD", "SUB", "COMPARE"} ->
         Kept(stmts[k], IF stmts[k].left # <<>> /\ stmts[k].right # <<>>
                        THEN GenerateBinary(g, stmts, k) ELSE g)
    [] stmts[k].type \in {"JUMP", "JUMP_NOT_EQUAL", "JUMP_EQUAL"} ->
         Kept(stmts[k], IF stmts[k].left # <<>> THEN GenerateJump(g, stmts[k]) ELSE g)
    [] stmts[k].type = "RETURN" -> Kept(stmts[k], Emit(g, <<ReturnLine(func_name)>>))
    [] stmts[k].type = "CALL" -> Kept(stmts[k], GenerateCall(g, stmts[k], func_name))
    [] stmts[k].type = "SYS_CALL" -> process_syscall_parameters(g, stmts[k])
    [] OTHER -> Kept(stmts[k], Warn(g, <<"Unknown AST node type: "
                                          \o ToString(TokenTypeNumber(stmts[k].type))>>))

\* end of function handling that looks for an edge leaving the function
EndOfFunction_ByCaller(calls, name) ==
  IF StrEq(name, "main") THEN [calls |-> calls, line |-> "    jmp _exit"]
  ELSE LET c == {i \in 1..Len(calls) : StrEq(calls[i].caller_func, name) /\ calls[i].used = 0}
       IN  IF c # {}
           THEN [calls |-> [calls EXCEPT ![Min(c)].used = 1],
                 line |-> "    jmp " \o calls[Min(c)].return_label]
           ELSE [calls |-> calls, line |-> "    ret"]

\* end of function handling that jumps back without marking the edge
EndOfFunction_NoMark(calls, name) ==
  IF StrEq(name, "main") THEN [calls |-> calls, line |-> "    jmp _exit"]
  ELSE LET c == {i \in 1..Len(calls) : StrEq(calls[i].callee_func, name) /\ calls[i].used = 0}
       IN  IF c # {}
           THEN [calls |-> calls, line |-> "    jmp " \o calls[Min(c)].return_label]
           ELSE [calls |-> calls, line |-> "    ret"]

\* end of function handling that takes the last matching edge instead of the first
EndOfFunction_LastEdge(calls, name) ==
  IF StrEq(name, "main") THEN [calls |-> calls, line |-> "    jmp _exit"]
  ELSE LET c == {i \in 1..Len(calls) : StrEq(calls[i].callee_func, name) /\ calls[i].used = 0}
       IN  IF c # {}
           THEN [calls |-> [calls EXCEPT ![Max(c)].used = 1],
                 line |-> "    jmp " \o calls[Max(c)].return_label]
           ELSE [calls |-> calls, line |-> "    ret"]

\* an end of function handling that spells the label after the callee
EndOfFunction_CalleeLabel(calls, name) ==
  IF StrEq(name, "main") THEN [calls |-> calls, line |-> "    jmp _exit"]
  ELSE LET c == {i \in 1..Len(calls) : StrEq(calls[i].callee_func, name) /\ calls[i].used = 0}
       IN  IF c # {}
           THEN [calls |-> [calls EXCEPT ![Min(c)].used = 1],
                 line |-> "    jmp __backto_" \o name \o "_" \o ToString(Min(c) - 1)]
           ELSE [calls |-> calls, line |-> "    ret"]

\* generate_nasm, end of function handling: [calls, line]
EndOfFunction(calls, name) ==
  IF StrEq(name, "main") THEN [calls |-> calls, line |-> "    jmp _exit"]
  ELSE LET c == {i \in 1..Len(calls) : StrEq(calls[i].callee_func, name) /\ calls[i].used = 0}
       IN  IF c # {}
           THEN [calls |-> [calls EXCEPT ![Min(c)].used = 1],
                 line |-> "    jmp " \o calls[Min(c)].return_label]
           ELSE [calls |-> calls, line |-> "    ret"]

\* generate_nasm, the search for a function named main
FoundMain(nodes) == \E i \in 1..Len(nodes) : IsFunction(nodes[i]) /\ StrEq(nodes[i].value, "main")

\* WRITE_EXIT_SECTION
ExitSection == <<"_exit:",
                 "    mov eax, 1      ; exit system call",
                 "    xor ebx, ebx    ; exit code 0",
                 "    int 0x80        ; call kernel",
                 "">>

\* ------------------------------------------------------- prev back-links
\* connect_prev_pointers, the inner loop over a block's statement chain
RECURSIVE ConnectBlock(_, _, _)
ConnectBlock(h, block_content, block_prev) ==
  IF block_content = 0 THEN h
  ELSE ConnectBlock([h EXCEPT ![block_content].prev = block_prev], h[block_content].next, block_content)

\* connect_prev_pointers: the statement chain of `current` when it is a
\* LABEL whose left is a LBRACE
ConnectChild(h, current) ==
  IF h[current].type = "LABEL" /\ h[current].left # 0 /\ h[h[current].left].type = "LBRACE"
  THEN ConnectBlock(h, h[h[current].left].left, 0)
  ELSE h

\* a loop over the top-level chain that leaves the blocks alone
RECURSIVE ConnectTop_TopOnly(_, _, _)
ConnectTop_TopOnly(h, current, prev) ==
  IF current = 0 THEN h
  ELSE ConnectTop_TopOnly([h EXCEPT ![current].prev = prev], h[current].next, current)

\* connect_prev_pointers, the loop over the top-level chain
RECURSIVE ConnectTop(_, _, _)
ConnectTop(h, current, prev) ==
  IF current = 0 THEN h
  ELSE ConnectTop(ConnectChild([h EXCEPT ![current].prev = prev], current), h[current].next, current)

\* connect_prev_pointers(head) on the heap h
connect_prev_pointers(h, head) == IF head = 0 THEN h ELSE ConnectTop(h, head, 0)

\* new_ast_node followed by the assignments of next and left that the
\* parser makes
HeapNode(type, next, left) ==
  [type |-> type, value |-> type, left |-> left, right |-> 0, next |-> next, prev |-> 0]

\* parse_all / parse_label / parse_block: the objects of a top-level chain
\* from address base + 1 on; an item of the shape is -1 for a statement at
\* top level and k >= 0 for a function of k statements
RECURSIVE Allocate(_, _)
Allocate(shape, base) ==
  IF shape = <<>> THEN <<>>
  ELSE LET k == Head(shape)
           size == IF k = -1 THEN 1 ELSE 2 + k
           next == IF Tail(shape) = <<>> THEN 0 ELSE base + size + 1
       IN  (IF k = -1
            THEN <<HeapNode("MOVE", next, 0)>>
            ELSE <<HeapNode("LABEL", next, base + 2),
                   HeapNode("LBRACE", 0, IF k > 0 THEN base + 3 ELSE 0)>>
                 \o [j \in 1..k |-> HeapNode("MOVE", IF j < k THEN base + 3 + j ELSE 0, 0)])
           \o Allocate(Tail(shape), base + size)

\* ------------------------------------------------------------------ lexer
\* <ctype.h>, on the characters a source text holds
Lower == {"a", "b", "c", "d", "e", "f", "g", "h", "i", "j", "k", "l", "m",
          "n", "o", "p", "q", "r", "s", "t", "u", "v", "w", "x", "y", "z"}
Upper == {"A", "B", "C", "D", "E", "F", "G", "H", "I", "J", "K", "L", "M",
          "N", "O", "P", "Q", "R", "S", "T", "U", "V", "W", "X", "Y", "Z"}
Digits == {"0", "1", "2", "3", "4", "5", "6", "7", "8", "9"}
isalpha(c) == c \in Lower \cup Upper
isdigit(c) == c \in Digits
isalnum(c) == isalpha(c) \/ isdigit(c)
isspace(c) == c \in {" ", "\t", "\n", "\r"}

\* source_code[p - 1], the empty text at and after the terminating NUL
SourceChar(s, p) == IF p <= Len(s) THEN SubSeq(s, p, p) ELSE ""

\* strncmp(&source_code[p - 1], word, strlen(word)) == 0
Strncmp(s, p, word) == p + Len(word) - 1 <= Len(s) /\ SubSeq(s, p, p + Len(word) - 1) = word

\* the one-character tokens
Punctuation == [c \in {"(", ")", "{", "}", ",", ";"} |->
  CASE c = "(" -> "LPAREN" [] c = ")" -> "RPAREN" [] c = "{" -> "LBRACE"
    [] c = "}" -> "RBRACE" [] c = "," -> "COMMA" [] c = ";" -> "SEMICOLON"]

\* the keyword tests in the order the lexer makes them
Keywords == <<
  [word |-> "move", type |-> "MOVE"],
  [word |-> "add", type |-> "ADD"],
  [word |-> "sub", type |-> "SUB"],
  [word |-> "compare", type |-> "COMPARE"],
  [word |-> "jump_not_equal", type |-> "JUMP_NOT_EQUAL"],
  [word |-> "jump_equal", type |-> "JUMP_EQUAL"],
  [word |-> "jump", type |-> "JUMP"],
  [word |-> "syscall", type |-> "SYS_CALL"],
  [word |-> "func", type |-> "LABEL_KW"],
  [word |-> "return", type |-> "RETURN"],
  [word |-> "call", type |-> "CALL"] >>

\* one keyword test: the word stands at p, and what follows it is the end
\* of the text or no letter or digit; for `func`, the end or white space
KeywordTest(s, p, k) ==
  /\ Strncmp(s, p, Keywords[k].word)
  /\ \/ p + Len(Keywords[k].word) > Len(s)
     \/ IF Keywords[k].word = "func"
        THEN isspace(SourceChar(s, p + Len(Keywords[k].word)))
        ELSE ~isalnum(SourceChar(s, p + Len(Keywords[k].word)))

\* the first keyword test that succeeds at p (0: none)
KeywordAt(s, p) ==
  IF \E k \in 1..Len(Keywords) : KeywordTest(s, p, k)
  THEN Min({k \in 1..Len(Keywords) : KeywordTest(s, p, k)})
  ELSE 0

\* where the identifier loop stops
IdentifierChar(c) == isalnum(c) \/ c = "_" \/ c = "&"
IdentifierEnd(s, p) == Min({q \in p..(Len(s) + 1) : ~IdentifierChar(SourceChar(s, q))})

\* where the number loop stops
NumberEnd(s, p) == Min({q \in p..(Len(s) + 1) : ~isdigit(SourceChar(s, q))})

\* the type the lexer gives an identifier
IdentifierType(identifier) ==
  IF Len(identifier) >= 2 /\ SourceChar(identifier, 1) \in {"&", "r"} /\ isdigit(SourceChar(identifier, 2))
  THEN "IDENTIFIER" ELSE "LABEL"

\* add_token, the column being that of the token's first character
add_token(l, type, value, p, width) ==
  [l EXCEPT !.i = p - 1 + width, !.head = Append(@, [type |-> type, value |-> value, column |-> p])]

\* one iteration of the lexer's loop on a text of one line without
\* quotes and slashes, p the place of current_char
LexAt(l, s, p, c) ==
  IF isspace(c) THEN [l EXCEPT !.i = p]
  ELSE IF c = "&" /\ Strncmp(s, p, "&strlen&") THEN add_token(l, "STRLEN", "&strlen&", p, 8)
  ELSE IF c \in DOMAIN Punctuation THEN add_token(l, Punctuation[c], c, p, 1)
  ELSE IF KeywordAt(s, p) # 0
    THEN add_token(l, Keywords[KeywordAt(s, p)].type, Keywords[KeywordAt(s, p)].word, p,
                   Len(Keywords[KeywordAt(s, p)].word))
  ELSE IF isalpha(c) \/ c = "&"
    THEN add_token(l, IdentifierType(SubSeq(s, p, IdentifierEnd(s, p) - 1)),
                   SubSeq(s, p, IdentifierEnd(s, p) - 1), p, IdentifierEnd(s, p) - p)
  ELSE IF isdigit(c)
    THEN add_token(l, "NUMBER", SubSeq(s, p, NumberEnd(s, p) - 1), p, NumberEnd(s, p) - p)
  ELSE add_token(l, "UNKNOWN", "UNKNOWN", p, 1)

lexer_iteration(l) == LexAt(l, l.source_code, l.i + 1, SourceChar(l.source_code, l.i + 1))

\* ------------------------------------------------------------ input programs
Reg1 == new_ast_node("IDENTIFIER", "&1")
MoveNumber == MoveStmt(Reg1, new_ast_node("NUMBER", "1"))
StringA == new_ast_node("STRING", "\"a\"")
StrLenNode == new_ast_node("STRLEN", "&strlen&")

\* statements of the programs of Spec: calls among main, f and g, returns, plain moves
Names == {"main", "f", "g"}
AlphaCall == {CallStmt(n) : n \in Names} \cup {ReturnStmt, MoveNumber}

\* statements of the programs of SpecReg: calls only, one statement more
AlphaReg == {CallStmt(n) : n \in Names}

\* statements of the programs of SpecExec: calls, a conditional jump, returns and plain moves
AlphaExec == {CallStmt("main"), CallStmt("f"), CallStmt("g"), JumpStmt("JUMP_EQUAL", "jump_equal", "g"),
              ReturnStmt, MoveNumber}

\* statements of the programs of SpecStr: moves of a literal (two texts, and
\* one without quotes) and syscalls over literal and strlen parameters
StrParams == UNION { [1..n -> {StringA, StrLenNode}] : n \in 0..MaxParams }
AlphaStr == {MoveStmt(Reg1, StringA),
             MoveStmt(Reg1, new_ast_node("STRING", "\"b\"")),
             MoveStmt(Reg1, new_ast_node("STRING", "a"))}
            \cup {SysCallStmt(ps) : ps \in StrParams}

\* what the lexer takes between the quotes of a literal, one unit at a
\* time: a plain character, or a backslash with the character after it
Units == {"a", "\\n", "\\\\", "\\\""}

\* the texts of at most n units
RECURSIVE Contents(_)
Contents(n) ==
  IF n = 0 THEN {""} ELSE Contents(n - 1) \cup {c \o u : c \in Contents(n - 1), u \in Units}

\* statements of the programs of SpecLit: a move of a literal as the lexer
\* delivers it, quotes included
Literals == {"\"" \o c \o "\"" : c \in Contents(MaxUnits)} \cup {"\"Hello World\"", "\"Helo2\"", "\"a\\nb\""}
AlphaLit == {MoveStmt(Reg1, new_ast_node("STRING", l)) : l \in Literals}

\* statements of the programs of SpecSys: one syscall over numbers,
\* a literal, strlen and a register, and the write of the hello example
Number4 == new_ast_node("NUMBER", "4")
Reg2 == new_ast_node("IDENTIFIER", "&2")
SysParams == UNION { [1..n -> {Number4, StringA, StrLenNode, Reg2}] : n \in 0..MaxSysParams }
HelloWrite == SysCallStmt(<<Number4, new_ast_node("NUMBER", "1"),
                            new_ast_node("STRING", "\"Hello World\""), StrLenNode>>)
AlphaSys == {SysCallStmt(ps) : ps \in SysParams} \cup {HelloWrite}

\* statements of the programs of SpecParamLen: one syscall over two
\* literals of different lengths, strlen and a number
StringBB == new_ast_node("STRING", "\"bb\"")
LenParams == UNION { [1..n -> {StringA, StringBB, StrLenNode, Number4}] : n \in 0..MaxLenParams }
AlphaParamLen == {SysCallStmt(ps) : ps \in LenParams}

\* statements of the programs of SpecMoveLen: moves of two literals of
\* different lengths, of strlen and of a plain label, a syscall with a
\* literal of a third length and a syscall with strlen alone
StringCCC == new_ast_node("STRING", "\"ccc\"")
AlphaMoveLen == {MoveStmt(Reg1, StringA), MoveStmt(Reg1, StringBB), MoveStmt(Reg1, StrLenNode),
                 MoveStmt(Reg1, new_ast_node("LABEL", "foo")),
                 SysCallStmt(<<StringCCC>>), SysCallStmt(<<StrLenNode>>)}

\* statements of the programs of SpecUnknown: a node of a kind that
\* generate_block has no case for, among statements that look at their
\* neighbours or at the tables
UnknownStmt == new_ast_node("NUMBER", "7")
AlphaUnknown == {UnknownStmt, MoveStmt(Reg1, StringA), MoveStmt(Reg1, StrLenNode), CallStmt("f"),
                 SysCallStmt(<<StringA, StrLenNode>>)}

\* statements of the programs of SpecLayout: literals in moves and in
\* syscalls, calls, returns
AlphaLayout == {MoveStmt(Reg1, StringA), SysCallStmt(<<StringA, StrLenNode>>), CallStmt("f"),
                CallStmt("main"), ReturnStmt}

\* statements of the programs of SpecTwice: each fills a table, the
\* string table or the call-edge table, or neither
AlphaTwice == {MoveStmt(Reg1, StringA), SysCallStmt(<<StringA, StringBB, StrLenNode>>),
               SysCallStmt(<<StringBB>>), CallStmt("f"), CallStmt("g"), MoveNumber}

\* statements of the programs of SpecTranslate: a move or an add between
\* operands written as logical registers in and out of the table, as other
\* identifiers and as labels
IdentifierTexts == {"&1", "&2", "&3", "&4", "&5", "&6", "&7", "&0", "&8", "&17", "r1"}
LabelTexts == {"eax", "foo"}
OperandNodes == {new_ast_node("IDENTIFIER", t) : t \in IdentifierTexts}
                  \cup {new_ast_node("LABEL", t) : t \in LabelTexts}
AlphaTranslate == {BinaryStmt("MOVE", "move", d, s) : d, s \in OperandNodes}
                    \cup {BinaryStmt("ADD", "add", d, s) : d, s \in OperandNodes}

\* the long program of SpecEdges: functions f1, f2, ... of ten calls each,
\* to f1..f10, the last function with the calls that are left of n
ManyCalls(n) ==
  [j \in 1..((n + 9) \div 10) |->
     LabelNode("f" \o ToString(j),
               [i \in 1..(IF j * 10 <= n THEN 10 ELSE n - (j - 1) * 10) |-> CallStmt("f" \o ToString(i))])]

\* the shapes of the chains of SpecPrev: up to MaxFuncs top-level nodes,
\* each a statement or a function of up to MaxStmts statements
Shapes == UNION {[1..n -> (-1)..MaxStmts] : n \in 0..MaxFuncs}

\* statements of the programs of SpecRerun: with and without literals, with
\* strlen as a Move source and as a parameter
AlphaRerun == {MoveStmt(Reg1, StringA), MoveStmt(Reg1, StrLenNode), SysCallStmt(<<StringA, StrLenNode>>),
               SysCallStmt(<<StrLenNode>>), CallStmt("f"), MoveNumber}

\* the long program of SpecStrings: one function of syscalls with seven
\* literals each, the last syscall with the literals that are left of n
ManyStrings(n) ==
  <<LabelNode("f", [j \in 1..((n + 6) \div 7) |->
                      SysCallStmt([i \in 1..(IF j * 7 <= n THEN 7 ELSE n - (j - 1) * 7) |-> StringA])])>>

\* the pieces source texts of SpecLex are put together from
Pieces == {"add", "call", "jump", "jump_equal", "jump_not_equal", "func", "move",
           "_", "x", "me", "r", "1", "&", " ", "("}

RECURSIVE Joined(_)
Joined(ps) == IF ps = <<>> THEN "" ELSE Head(ps) \o Joined(Tail(ps))

SourceTexts == {Joined(ps) : ps \in UNION {[1..n -> Pieces] : n \in 1..MaxPieces}}

Bodies(A, k) == [1..k -> A]

\* statements of a top-level chain: those in the blocks and those at top level
RECURSIVE CountStmts(_)
CountStmts(nodes) ==
  IF nodes = <<>> THEN 0
  ELSE (IF IsFunction(Head(nodes)) THEN Len(BlockOf(Head(nodes))) ELSE 1) + CountStmts(Tail(nodes))

Init ==
  /\ ast = <<>>
  /\ function_calls = <<>>
  /\ string_infos = <<>>
  /\ string_counter = 0
  /\ out = <<>>
  /\ err = <<>>
  /\ pc = "parse"
  /\ cur = 1
  /\ stmt = 0
  /\ ip = 0
  /\ visited = {}
  /\ runs = <<>>
  /\ heap = <<>>
  /\ lex = [source_code |-> "", i |-> 0, head |-> <<>>]

\* ---------------------------------------------------------------- actions
Tables == [infos |-> string_infos, counter |-> string_counter, calls |-> function_calls,
           out |-> out, err |-> err]

SetTables(g) ==
  /\ string_infos' = g.infos
  /\ string_counter' = g.counter
  /\ function_calls' = g.calls
  /\ out' = g.out
  /\ err' = g.err

\* the first pass stores what registering a block returned
SetCalls(r) == function_calls' = r.calls /\ err' = err \o r.diag

\* add_string_info has returned NULL during a pass that took the
\* diagnostics from `before` to `after`
NullLabelUsed(before, after) ==
  \E i \in (Len(before) + 1)..Len(after) : after[i] = "Too many strings in the program!"

\* the line of `text` that declares a literal under the null label
NullLabelLine(text) ==
  Min({k \in 1..Len(text) : Len(text[k]) >= 10 /\ SubSeq(text[k], 1, 10) = "    (null)"})

\* collect_strings has rewritten the top-level chain
SetTablesAndChain(r) == SetTables(r.g) /\ ast' = r.chain

\* generate_block has emitted, and possibly rewritten, statement stmt of function cur
SetTablesAndStatement(r) == SetTables(r.g) /\ ast' = [ast EXCEPT ![cur].left[1].left[stmt] = r.node]

\* the end of function handling writes its line and the blank line
SetEpilogue(e) == function_calls' = e.calls /\ out' = out \o <<e.line, "">>

\* parse_all: one iteration of the loop appends a node to the top-level
\* chain: a function named in NS with a block of statements of A, or a
\* statement of Strays standing at top level
ParseNode(A, NS, Strays, budget) ==
  /\ pc = "parse"
  /\ Len(ast) < MaxFuncs
  /\ \/ \E nm \in NS, j \in 0..(budget - CountStmts(ast)) : \E b \in Bodies(A, j) :
          ast' = Append(ast, LabelNode(nm, b))
     \/ \E t \in Strays : CountStmts(ast) < budget /\ ast' = Append(ast, t)
  /\ UNCHANGED <<function_calls, string_infos, string_counter, out, err, pc, cur, stmt, ip, visited, runs, heap, lex>>

ParseCalls == ParseNode(AlphaCall, Names, {}, MaxStmts)
ParseExec == ParseNode(AlphaExec, Names, {}, MaxStmts)
ParseStr == ParseNode(AlphaStr, {"f"}, {MoveStmt(Reg1, StringA)}, MaxStmts)
ParseReg == ParseNode(AlphaReg, {"main", "f"}, {CallStmt("f")}, MaxStmts + 1)
ParseLit == ParseNode(AlphaLit, {"f"}, {}, 1)
ParseLayout == ParseNode(AlphaLayout, {"main", "f"}, {MoveNumber}, MaxStmts)
ParseUnknown == ParseNode(AlphaUnknown, {"f"}, {}, MaxStmts + 1)
ParseMoveLen == ParseNode(AlphaMoveLen, {"f"}, {}, MaxStmts + 1)
\* parse_all, before the first call of generate_nasm only
ParseRerun == runs = <<>> /\ ParseNode(AlphaRerun, {"f"}, {}, MaxStmts)

\* parse_all on a program of one function f of one statement of A
ParseOne(A) ==
  /\ pc = "parse"
  /\ ast = <<>>
  /\ \E s \in A : ast' = <<LabelNode("f", <<s>>)>>
  /\ UNCHANGED <<function_calls, string_infos, string_counter, out, err, pc, cur, stmt, ip, visited, runs, heap, lex>>

ParseSys == ParseOne(AlphaSys)
ParseParamLen == ParseOne(AlphaParamLen)
\* parse_all on the program b(n), for a size n around the capacity of a
\* table
ParseLong(b(_), most) ==
  /\ pc = "parse"
  /\ ast = <<>>
  /\ \E n \in {most - 2, most - 1, most} : ast' = b(n)
  /\ UNCHANGED <<function_calls, string_infos, string_counter, out, err, pc, cur, stmt, ip, visited, runs, heap, lex>>

ParseManyCalls == ParseLong(ManyCalls, MaxEdges)
ParseManyStrings == ParseLong(ManyStrings, MaxLiterals)
ParseTranslate == ParseOne(AlphaTranslate)
ParseTwice == ParseOne(AlphaTwice)

\* an fopen failure that is reported but not returned from
Open_NoReturn ==
  /\ pc = "parse"
  /\ \E opened \in BOOLEAN :
       /\ function_calls' = <<>>
       /\ pc' = "register"
       /\ runs' = Append(runs, [program |-> ast, text |-> <<>>, closed |-> FALSE])
       /\ IF opened THEN UNCHANGED err
          ELSE err' = err \o <<"Failed to open output file: out.asm">>
  /\ UNCHANGED <<ast, string_infos, string_counter, out, cur, stmt, ip, visited, heap, lex>>

\* generate_nasm: fopen, connect_prev_pointers, function_call_count = 0
Open ==
  /\ pc = "parse"
  /\ \E opened \in BOOLEAN :
       IF opened
       THEN /\ function_calls' = <<>>
            /\ pc' = "register"
            /\ UNCHANGED err
            /\ runs' = Append(runs, [program |-> ast, text |-> <<>>, closed |-> FALSE])
       ELSE /\ err' = err \o <<"Failed to open output file: out.asm">>
            /\ pc' = "done"
            /\ UNCHANGED <<function_calls, runs, lex>>
  /\ UNCHANGED <<ast, string_infos, string_counter, out, cur, stmt, ip, visited, heap, lex>>

\* generate_nasm: one iteration of the first pass over the top-level chain
RegisterCalls ==
  /\ pc = "register"
  /\ cur <= Len(ast)
  /\ SetCalls(IF IsFunction(ast[cur]) /\ HasBlock(ast[cur])
              THEN RegisterBlock([calls |-> function_calls, diag |-> <<>>],
                                 ast[cur].value, BlockOf(ast[cur]))
              ELSE [calls |-> function_calls, diag |-> <<>>])
  /\ cur' = cur + 1
  /\ UNCHANGED <<ast, string_infos, string_counter, out, pc, stmt, ip, visited, runs, heap, lex>>

\* generate_nasm: collect_strings(ast, fp), after the first pass has ended
\* When add_string_info returns NULL, collect_strings hands the null label
\* to fprintf("%s") and to strdup (undefined behaviour). The outcomes: the
\* process dies in one of the two calls, and the buffered stream has let
\* through some of the lines written so far, or both calls get by and the
\* pass goes on with the null label, written as (null).
CollectStrings ==
  /\ pc = "register"
  /\ cur > Len(ast)
  /\ \E r \in {collect_strings(Tables, ast)} :
       \/ SetTablesAndChain(r) /\ pc' = "header"
       \/ /\ NullLabelUsed(err, r.g.err)
          /\ \E n \in 0..NullLabelLine(r.g.out) : out' = SubSeq(r.g.out, 1, n)
          /\ err' = err \o <<"Too many strings in the program!">>
          /\ string_infos' = r.g.infos
          /\ string_counter' = r.g.counter
          /\ pc' = "crashed"
          /\ UNCHANGED <<ast, function_calls>>
  /\ UNCHANGED <<cur, stmt, ip, visited, runs, heap, lex>>

\* generate_nasm: the text section header, the exit stub and the entry jump
WriteHeader ==
  /\ pc = "header"
  /\ out' = out \o <<"section .text", "global _start", "">> \o ExitSection
                \o (IF FoundMain(ast)
                    THEN <<"_start:", "    jmp main     ; Call the main function", "">>
                    ELSE <<>>)
  /\ pc' = "emit"
  /\ cur' = 1
  /\ stmt' = 0
  /\ UNCHANGED <<ast, function_calls, string_infos, string_counter, err, ip, visited, runs, heap, lex>>

\* generate_nasm, emission loop: a top-level node is taken up; a function
\* gets its label line, any other node is passed over
BeginNode ==
  /\ pc = "emit"
  /\ cur <= Len(ast)
  /\ stmt = 0
  /\ IF IsFunction(ast[cur])
     THEN /\ out' = out \o <<ast[cur].value \o ":">>
          /\ stmt' = 1
          /\ UNCHANGED cur
     ELSE /\ cur' = cur + 1
          /\ UNCHANGED <<out, stmt>>
  /\ UNCHANGED <<ast, function_calls, string_infos, string_counter, err, pc, ip, visited, runs, heap, lex>>

\* generate_block: one iteration of the loop over the block of function cur
GenStmt ==
  /\ pc = "emit"
  /\ cur <= Len(ast)
  /\ stmt >= 1
  /\ stmt <= Len(BlockOf(ast[cur]))
  /\ \E r \in {GenerateStatement(Tables, BlockOf(ast[cur]), stmt, ast[cur].value)} : SetTablesAndStatement(r)
  /\ stmt' = stmt + 1
  /\ UNCHANGED <<pc, cur, ip, visited, runs, heap, lex>>

\* generate_nasm: end of function handling and the blank line after it
Epilogue ==
  /\ pc = "emit"
  /\ cur <= Len(ast)
  /\ stmt >= 1
  /\ stmt > Len(BlockOf(ast[cur]))
  /\ \E r \in {EndOfFunction(function_calls, ast[cur].value)} : SetEpilogue(r)
  /\ cur' = cur + 1
  /\ stmt' = 0
  /\ UNCHANGED <<ast, string_infos, string_counter, err, pc, ip, visited, runs, heap, lex>>

\* generate_nasm: the fallback entry point when there is no main, and fclose
WriteFallback ==
  /\ pc = "emit"
  /\ cur > Len(ast)
  /\ out' = out \o (IF ~FoundMain(ast)
                    THEN <<"_start:", "    ; No main function found, exiting directly", "    jmp _exit">>
                    ELSE <<>>)
  /\ runs' = [runs EXCEPT ![Len(runs)] = [program |-> @.program, text |-> out', closed |-> TRUE]]
  /\ pc' = "cleanup"
  /\ UNCHANGED <<ast, function_calls, string_infos, string_counter, err, cur, stmt, ip, visited, heap, lex>>

\* generate_nasm: cleanup_string_infos(); cleanup_function_calls()
Cleanup ==
  /\ pc = "cleanup"
  /\ string_infos' = <<>>
  /\ function_calls' = <<>>
  /\ pc' = "done"
  /\ UNCHANGED <<ast, string_counter, out, err, cur, stmt, ip, visited, runs, heap, lex>>

\* ------------------------------------------- running the emitted text
\* The emitted file read as a control-flow machine: a `jmp` goes to the line
\* that defines its target, every other line falls through, `_exit:` ends
\* the run.  ip = -1: control has left the text (a `ret` with no return
\* address pushed, a jump to a label the text does not define or defines
\* twice, or running off the end).
StartsWith(s, prefix) == Len(s) >= Len(prefix) /\ SubSeq(s, 1, Len(prefix)) = prefix
EndsWith(s, suffix) == Len(s) >= Len(suffix) /\ SubSeq(s, Len(s) - Len(suffix) + 1, Len(s)) = suffix

\* the operand of a jump line: the text after the mnemonic up to the first blank
RECURSIVE Word(_, _)
Word(s, i) == IF i > Len(s) \/ SubSeq(s, i, i) = " " THEN "" ELSE SubSeq(s, i, i) \o Word(s, i + 1)

IsJmp(line) == StartsWith(line, "    jmp ")
IsCondJump(line) == StartsWith(line, "    jne ") \/ StartsWith(line, "    je ")
JumpTarget(line) == IF StartsWith(line, "    je ") THEN Word(line, 8) ELSE Word(line, 9)
IsLabelDef(line) == ~StartsWith(line, " ") /\ EndsWith(line, ":")
Defs(text, label) == {k \in 1..Len(text) : text[k] = label \o ":"}
Goto(text, label) == IF Cardinality(Defs(text, label)) = 1 THEN Min(Defs(text, label)) ELSE -1

AtExit == ip >= 1 /\ ip <= Len(out) /\ out[ip] = "_exit:"

\* the entry point is taken: control is at `_start:`
ExecStart ==
  /\ pc = "done"
  /\ out # <<>>
  /\ ip = 0
  /\ ip' = Goto(out, "_start")
  /\ UNCHANGED <<ast, function_calls, string_infos, string_counter, out, err, pc, cur, stmt, visited, runs, heap, lex>>

\* one line of the emitted text is executed
ExecStep ==
  /\ pc = "done"
  /\ ip >= 1
  /\ ~AtExit
  /\ visited' = visited \cup {ip}
  /\ LET line == out[ip]
         through == IF ip + 1 <= Len(out) THEN ip + 1 ELSE -1
     IN  IF IsJmp(line) THEN ip' = Goto(out, JumpTarget(line))
         ELSE IF IsCondJump(line) THEN ip' \in {Goto(out, JumpTarget(line)), through}
         ELSE IF line = "    ret" THEN ip' = -1
         ELSE ip' = through
  /\ UNCHANGED <<ast, function_calls, string_infos, string_counter, out, err, pc, cur, stmt, runs, heap, lex>>

\* generate_nasm is called once more in the same process, on a new chain
\* and a new output file: the file-scope tables and counters are as the
\* call before left them
Again ==
  /\ pc = "done"
  /\ ip = 0
  /\ Len(runs) < MaxRuns
  /\ ast' = <<>>
  /\ out' = <<>>
  /\ err' = <<>>
  /\ pc' = "parse"
  /\ cur' = 1
  /\ stmt' = 0
  /\ UNCHANGED <<function_calls, string_infos, string_counter, ip, visited, runs, heap, lex>>

\* generate_nasm is called once more in the same process on the chain that
\* the call before has worked on, and a new output file
Rerun ==
  /\ pc = "done"
  /\ ip = 0
  /\ Len(runs) < MaxRuns
  /\ out' = <<>>
  /\ err' = <<>>
  /\ pc' = "parse"
  /\ cur' = 1
  /\ stmt' = 0
  /\ UNCHANGED <<ast, function_calls, string_infos, string_counter, ip, visited, runs, heap, lex>>

Generate ==
  \/ Open
  \/ RegisterCalls
  \/ CollectStrings
  \/ WriteHeader
  \/ BeginNode
  \/ GenStmt
  \/ Epilogue
  \/ WriteFallback
  \/ Cleanup

Next == ParseCalls \/ Generate

NextStr == ParseStr \/ Generate

NextReg == ParseReg \/ Generate

NextLit == ParseLit \/ Generate

NextSys == ParseSys \/ Generate

NextParamLen == ParseParamLen \/ Generate

NextMoveLen == ParseMoveLen \/ Generate

NextUnknown == ParseUnknown \/ Generate

NextLayout == ParseLayout \/ Generate

NextTwice == ParseTwice \/ Generate \/ Again

NextTranslate == ParseTranslate \/ Generate

NextEdges == ParseCalls \/ ParseManyCalls \/ Generate

\* parse_all leaves the objects of a chain on the heap
ParseChains ==
  /\ pc = "parse"
  /\ ast = <<>>
  /\ heap = <<>>
  /\ \E shape \in Shapes : shape # <<>> /\ heap' = Allocate(shape, 0)
  /\ UNCHANGED <<ast, function_calls, string_infos, string_counter, out, err, pc, cur, stmt, ip, visited, runs, lex>>

\* generate_nasm: connect_prev_pointers(ast), the chain's head at address 1
ConnectPrev ==
  /\ pc = "parse"
  /\ heap # <<>>
  /\ heap' = connect_prev_pointers(heap, 1)
  /\ pc' = "linked"
  /\ UNCHANGED <<ast, function_calls, string_infos, string_counter, out, err, cur, stmt, ip, visited, runs, lex>>

\* lexer is called on a source text
ReadSource ==
  /\ pc = "parse"
  /\ ast = <<>>
  /\ heap = <<>>
  /\ lex.source_code = ""
  /\ \E s \in SourceTexts : lex' = [source_code |-> s, i |-> 0, head |-> <<>>]
  /\ UNCHANGED <<ast, function_calls, string_infos, string_counter, out, err, pc, cur, stmt, ip, visited, runs, heap>>

\* lexer: one iteration of the loop over source_code
LexStep ==
  /\ lex.i < Len(lex.source_code)
  /\ lex' = lexer_iteration(lex)
  /\ UNCHANGED <<ast, function_calls, string_infos, string_counter, out, err, pc, cur, stmt, ip, visited, runs, heap>>

NextLex == ReadSource \/ LexStep

NextPrev == ParseChains \/ ConnectPrev

NextRerun == ParseRerun \/ Generate \/ Rerun

NextStrings == ParseStr \/ ParseManyStrings \/ Generate

NextExec ==
  \/ ParseExec
  \/ Generate
  \/ ExecStart
  \/ ExecStep

Spec == Init /\ [][Next]_vars

\* programs of calls, in functions and at top level
SpecReg == Init /\ [][NextReg]_vars

\* programs with string operands
SpecStr == Init /\ [][NextStr]_vars

\* programs of one move of a literal
SpecLit == Init /\ [][NextLit]_vars

\* programs of one syscall
SpecSys == Init /\ [][NextSys]_vars

\* programs of one syscall over literals of different lengths
SpecParamLen == Init /\ [][NextParamLen]_vars

\* programs of moves of literals and of strlen, with syscalls between them
SpecMoveLen == Init /\ [][NextMoveLen]_vars

\* programs with statement nodes of an unrecognized kind
SpecUnknown == Init /\ [][NextUnknown]_vars

\* programs with and without main, with literals and calls
SpecLayout == Init /\ [][NextLayout]_vars

\* several calls of generate_nasm in one process
SpecTwice == Init /\ [][NextTwice]_vars

\* programs of one statement between two register or label operands
SpecTranslate == Init /\ [][NextTranslate]_vars

\* programs of calls, among them one with more edges than the table holds
SpecEdges == Init /\ [][NextEdges]_vars

\* chains of objects and their back-links
SpecPrev == Init /\ [][NextPrev]_vars

\* several calls of generate_nasm on one chain
SpecRerun == Init /\ [][NextRerun]_vars

\* programs with literals, among them one with more than the table holds
SpecStrings == Init /\ [][NextStrings]_vars

\* the lexer on source texts put together from keywords, names and separators
SpecLex == Init /\ [][NextLex]_vars

\* generation followed by a run of the emitted text; the generator is a
\* sequential program that runs to completion and the machine keeps executing
SpecExec == Init /\ [][NextExec]_vars /\ WF_vars(Generate \/ ExecStart \/ ExecStep)

\* ================================================================ claims
\* the generator is about to handle the end of function F = ast[cur]
AtEpilogue == pc = "emit" /\ cur <= Len(ast) /\ stmt >= 1 /\ stmt > Len(BlockOf(ast[cur]))

\* the generator is about to emit statement `stmt` of function ast[cur]
AtStatement == pc = "emit" /\ cur <= Len(ast) /\ stmt >= 1 /\ stmt <= Len(BlockOf(ast[cur]))
CurrentStmt == BlockOf(ast[cur])[stmt]

\* edges naming `name` as callee, and those of them not yet consumed
EdgesTo(name) == {i \in 1..Len(function_calls) : function_calls[i].callee_func = name}
OpenEdgesTo(name) == {i \in EdgesTo(name) : function_calls[i].used = 0}

\* C1: the end of a function F writes exactly one epilogue line (and the
\* blank line): `jmp _exit` for main; otherwise `jmp <return_label>` of the
\* lowest-index unconsumed edge whose callee is F, whose flag it sets; and
\* `ret`, with the table untouched, if there is no such edge.
C1_Epilogue ==
  [][AtEpilogue =>
       LET F == ast[cur].value
           n == Len(out)
       IN  /\ Len(out') = n + 2
           /\ SubSeq(out', 1, n) = out
           /\ out'[n + 2] = ""
           /\ IF F = "main"
              THEN out'[n + 1] = "    jmp _exit" /\ function_calls' = function_calls
              ELSE IF OpenEdgesTo(F) = {}
              THEN out'[n + 1] = "    ret" /\ function_calls' = function_calls
              ELSE \E i \in OpenEdgesTo(F) :
                     /\ \A j \in OpenEdgesTo(F) : i <= j
                     /\ out'[n + 1] = "    jmp " \o function_calls[i].return_label
                     /\ function_calls' = [function_calls EXCEPT ![i].used = 1]
  ]_vars

\* an epilogue has just jumped back over the first of two open edges to its function
C1_Witness ==
  /\ pc = "emit" /\ stmt = 0 /\ cur > 1
  /\ LET F == ast[cur - 1].value
     IN  /\ F # "main"
         /\ \E i, j \in EdgesTo(F) :
              /\ i < j
              /\ function_calls[i].used = 1
              /\ function_calls[j].used = 0
              /\ out[Len(out) - 1] = "    jmp " \o function_calls[i].return_label

RECURSIVE BlockPairs(_, _)
BlockPairs(name, stmts) ==
  IF stmts = <<>> THEN <<>>
  ELSE (IF Head(stmts).type = "CALL" /\ Head(stmts).left # <<>>
        THEN <<<<name, Head(stmts).left[1].value>>>> ELSE <<>>) \o BlockPairs(name, Tail(stmts))

RECURSIVE CallPairs(_)
CallPairs(nodes) ==
  IF nodes = <<>> THEN <<>>
  ELSE (IF IsFunction(Head(nodes)) THEN BlockPairs(Head(nodes).value, BlockOf(Head(nodes))) ELSE <<>>)
       \o CallPairs(Tail(nodes))

\* a sequence without the repetitions of its earlier elements
RECURSIVE FirstOccurrences(_)
FirstOccurrences(seq) ==
  IF seq = <<>> THEN <<>>
  ELSE LET r == FirstOccurrences(SubSeq(seq, 1, Len(seq) - 1))
           x == seq[Len(seq)]
       IN  IF \E k \in 1..Len(r) : r[k] = x THEN r ELSE Append(r, x)

RegistrationEnded == pc = "register" /\ cur > Len(ast)

JumpsTo(text, label) == {k \in 1..Len(text) : text[k] = "    jmp " \o label}

\* the top-level functions named `name`
DefsOf(nodes, name) == {k \in 1..Len(nodes) : IsFunction(nodes[k]) /\ nodes[k].value = name}

\* generation has ended and the tables are not yet released
RunComplete == pc = "cleanup"

\* C4: during a generation run the records of the table stay and a consumed
\* flag only goes from unset to set; and at every moment each edge's return
\* label is the target of at most one jump of the emitted text, none while
\* its flag is unset, also when several functions call the same callee.
C4_ConsumedOnce ==
  /\ [][pc' # "done" =>
          /\ Len(function_calls') >= Len(function_calls)
          /\ \A i \in 1..Len(function_calls) :
               /\ function_calls'[i].caller_func = function_calls[i].caller_func
               /\ function_calls'[i].callee_func = function_calls[i].callee_func
               /\ function_calls'[i].return_label = function_calls[i].return_label
               /\ function_calls'[i].used >= function_calls[i].used
               /\ function_calls'[i].used \in {0, 1}]_vars
  /\ [](\A i \in 1..Len(function_calls) :
          /\ Cardinality(JumpsTo(out, function_calls[i].return_label)) <= 1
          /\ function_calls[i].used = 0 => JumpsTo(out, function_calls[i].return_label) = {})

\* a run has ended in which two functions call the same callee: the first
\* edge is consumed and jumped to once, the second is not
C4_Witness ==
  /\ RunComplete
  /\ \E i, j \in 1..Len(function_calls) :
       /\ i < j
       /\ function_calls[i].callee_func = function_calls[j].callee_func
       /\ function_calls[i].caller_func # function_calls[j].caller_func
       /\ function_calls[i].used = 1
       /\ function_calls[j].used = 0
       /\ Cardinality(JumpsTo(out, function_calls[i].return_label)) = 1

\* C5 as stated: after a complete run every registered edge has exactly one
\* jump back to its return label.
C5_ExactlyOnePerEdge ==
  RunComplete =>
    \A i \in 1..Len(function_calls) :
      Cardinality(JumpsTo(out, function_calls[i].return_label)) = 1

\* C5, amended: after a complete run every registered edge has at most one
\* jump back to its return label; it has exactly one if and only if its
\* callee is not main and has more top-level definitions than there are
\* lower-index edges naming the same callee.
C5_JumpBackPerEdge ==
  RunComplete =>
    \A i \in 1..Len(function_calls) :
      LET callee == function_calls[i].callee_func
          lower == {j \in EdgesTo(callee) : j < i}
          served == callee # "main" /\ Cardinality(DefsOf(ast, callee)) > Cardinality(lower)
      IN  Cardinality(JumpsTo(out, function_calls[i].return_label)) = IF served THEN 1 ELSE 0

\* a run has ended with an edge that is jumped back over and an edge whose
\* callee is main or is not defined, which is not
C5_Witness ==
  /\ RunComplete
  /\ \E i, j \in 1..Len(function_calls) :
       /\ Cardinality(JumpsTo(out, function_calls[i].return_label)) = 1
       /\ DefsOf(ast, function_calls[j].callee_func) = {} \/ function_calls[j].callee_func = "main"
       /\ JumpsTo(out, function_calls[j].return_label) = {}

\* the line that the end of function handling is writing
EpilogueLine == out'[Len(out) + 1]

\* C6 as stated: the epilogue of a non-main function is `ret` if and only
\* if no registered edge names the function as callee.
C6_RetIffNoEdge ==
  [][(AtEpilogue /\ ast[cur].value # "main") =>
       (EpilogueLine = "    ret" <=> EdgesTo(ast[cur].value) = {})]_vars

\* C6, amended: the epilogue of a non-main function is `ret` if and only if
\* the edges naming the function are no more than the earlier top-level
\* definitions of the same name; for a name defined once, if and only if no
\* registered edge names it.
C6_RetIffNoOpenEdge ==
  [][(AtEpilogue /\ ast[cur].value # "main") =>
       LET F == ast[cur].value
           earlier == {k \in DefsOf(ast, F) : k < cur}
       IN  /\ EpilogueLine = "    ret" <=> Cardinality(EdgesTo(F)) <= Cardinality(earlier)
           /\ Cardinality(DefsOf(ast, F)) = 1 =>
                (EpilogueLine = "    ret" <=> EdgesTo(F) = {})]_vars

\* a second definition of a called function has just ended in `ret`
C6_Witness ==
  /\ pc = "emit" /\ stmt = 0 /\ cur > 1
  /\ IsFunction(ast[cur - 1])
  /\ ast[cur - 1].value # "main"
  /\ EdgesTo(ast[cur - 1].value) # {}
  /\ \E k \in DefsOf(ast, ast[cur - 1].value) : k < cur - 1
  /\ out[Len(out) - 1] = "    ret"

\* line k of the text lies in the section of a function named `name`: after
\* a label line `name:` with no blank line in between
InSection(text, name, k) ==
  \E s \in Defs(text, name) : s < k /\ \A m \in s..k : text[m] # ""

\* the last line of the section of the function `name`, the line before the
\* blank line that ends it
EpilogueOf(text, name) ==
  LET s == Min(Defs(text, name))
      e == Min({k \in s..Len(text) : text[k] = ""})
  IN  text[e - 1]

\* the lines of the caller's sections that jump to the callee
CallSites(text, caller, callee) ==
  {k \in 1..Len(text) : text[k] = "    jmp " \o callee /\ InSection(text, caller, k)}

\* the functions that some registered edge names as callee
Called == {function_calls[i].callee_func : i \in 1..Len(function_calls)}

\* every called function is defined once and has exactly one caller
SingleCallerChain ==
  \A c \in Called : Cardinality(DefsOf(ast, c)) = 1 /\ Cardinality(EdgesTo(c)) = 1

\* the callee of edge i ends in a jump to the label that is defined on the
\* line after each `jmp <callee>` of its caller, and there is such a line
RoundTrip(i) ==
  LET e == function_calls[i]
      sites == CallSites(out, e.caller_func, e.callee_func)
  IN  /\ EpilogueOf(out, e.callee_func) = "    jmp " \o e.return_label
      /\ sites # {}
      /\ \A k \in sites : k < Len(out) /\ out[k + 1] = e.return_label \o ":"

\* C7 as stated: in a program where every called function is defined once
\* and has exactly one caller, whatever the order of the functions, each
\* callee's epilogue jumps to the landing label defined right after the
\* `jmp <callee>` line in its caller's body.
C7_ChainRoundTrip ==
  (RunComplete /\ SingleCallerChain) =>
    \A i \in 1..Len(function_calls) : RoundTrip(i)

\* C7, amended: a called function other than main that is defined once and
\* has exactly one caller ends in a jump to the landing label defined right
\* after the `jmp <callee>` line in its caller's body, wherever it stands in
\* the program; a called main ends in `jmp _exit`.
C7_ChainRoundTripExceptMain ==
  RunComplete =>
    \A i \in 1..Len(function_calls) :
      LET c == function_calls[i].callee_func
      IN  (Cardinality(DefsOf(ast, c)) = 1 /\ Cardinality(EdgesTo(c)) = 1) =>
            IF c = "main" THEN EpilogueOf(out, c) = "    jmp _exit" ELSE RoundTrip(i)

\* a run has ended on a chain of two calls whose last callee stands before
\* its caller in the program
C7_Witness ==
  /\ RunComplete
  /\ SingleCallerChain
  /\ "main" \notin Called
  /\ \E i, j \in 1..Len(function_calls) :
       /\ function_calls[i].callee_func = function_calls[j].caller_func
       /\ function_calls[i].caller_func # function_calls[j].callee_func
       /\ function_calls[i].callee_func # function_calls[j].callee_func
       /\ Min(DefsOf(ast, function_calls[j].callee_func)) < Min(DefsOf(ast, function_calls[j].caller_func))
       /\ RoundTrip(i) /\ RoundTrip(j)

\* the Call statements with an operand in the blocks of the top-level
\* functions: <<k, s>> is statement s of node k
CallStatements(nodes) ==
  {p \in (1..Len(nodes)) \X (1..MaxStmts + 1) :
     /\ IsFunction(nodes[p[1]]) /\ HasBlock(nodes[p[1]])
     /\ p[2] <= Len(BlockOf(nodes[p[1]]))
     /\ BlockOf(nodes[p[1]])[p[2]].type = "CALL"
     /\ BlockOf(nodes[p[1]])[p[2]].left # <<>>}

CalleeAt(nodes, p) == BlockOf(nodes[p[1]])[p[2]].left[1].value

\* the names reachable from `from` along at most n call statements
RECURSIVE CalledWithin(_, _, _)
CalledWithin(nodes, from, n) ==
  IF n = 0 THEN from
  ELSE CalledWithin(nodes,
                    from \cup {CalleeAt(nodes, p) : p \in {q \in CallStatements(nodes) : nodes[q[1]].value \in from}},
                    n - 1)

\* no function calls itself, directly or through others
Acyclic(nodes) ==
  \A p \in CallStatements(nodes) :
    nodes[p[1]].value \notin CalledWithin(nodes, {CalleeAt(nodes, p)}, Len(nodes))

\* the program that C8 is about
SingleReturnPath(nodes) ==
  /\ FoundMain(nodes)
  /\ \A k \in 1..Len(nodes) : IsFunction(nodes[k]) /\ HasBlock(nodes[k])
  /\ \A k \in 1..Len(nodes) : DefsOf(nodes, nodes[k].value) = {k}
  /\ \A p \in CallStatements(nodes) :
       /\ CalleeAt(nodes, p) # "main"
       /\ DefsOf(nodes, CalleeAt(nodes, p)) # {}
       /\ \A q \in CallStatements(nodes) : CalleeAt(nodes, q) = CalleeAt(nodes, p) => q = p
  /\ Acyclic(nodes)
  /\ \A k \in 1..Len(nodes) : \A s \in 1..Len(BlockOf(nodes[k])) :
       BlockOf(nodes[k])[s].type \notin {"JUMP", "JUMP_EQUAL", "JUMP_NOT_EQUAL", "RETURN"}

\* line k of the text is a call site: a jump followed by a landing label
IsCallSite(text, k) ==
  /\ k < Len(text)
  /\ IsJmp(text[k])
  /\ StartsWith(text[k + 1], "__backto_")
  /\ IsLabelDef(text[k + 1])

\* the lines of the section of the function `name`, label line to epilogue
SectionOf(text, name) ==
  {k \in 1..Len(text) : text[k] = name \o ":" \/ (text[k] # "" /\ InSection(text, name, k))}

\* every call site that has been executed had its callee's whole section
\* executed and control came back to the line after the call site
CallsReturned ==
  \A k \in visited :
    IsCallSite(out, k) =>
      /\ SectionOf(out, JumpTarget(out[k])) # {}
      /\ SectionOf(out, JumpTarget(out[k])) \subseteq visited
      /\ k + 1 \in visited

\* C8: when generation starts on a program with a main, unique function
\* names, every callee defined, not main and called from one call site only,
\* an acyclic call graph and no Jump, JumpEqual, JumpNotEqual or Return, then
\* the run of the emitted text from `_start` eventually stands at `_exit`,
\* having executed the body of every function it called and resumed on the
\* line after each call site.
C8_ReachesExit ==
  (pc = "register" /\ SingleReturnPath(ast)) ~> (AtExit /\ CallsReturned)

\* the run of a chain of two calls has reached `_exit`
C8_Witness ==
  /\ AtExit
  /\ SingleReturnPath(ast)
  /\ CallsReturned
  /\ \E k, m \in visited :
       /\ IsCallSite(out, k) /\ IsCallSite(out, m)
       /\ m \in SectionOf(out, JumpTarget(out[k]))

\* the lines that the statements of a block of calls, returns and moves of
\* a number take in the text
RECURSIVE BodyLines(_)
BodyLines(stmts) ==
  IF stmts = <<>> THEN 0
  ELSE (IF Head(stmts).type = "CALL" /\ Head(stmts).left # <<>> THEN 2 ELSE 1) + BodyLines(Tail(stmts))

\* the label line of top-level function k in the text: of the lines that
\* define its name, the one that stands as far as k among the definitions
LabelLineOf(k) ==
  LET same == Defs(out, ast[k].value)
      rank == Cardinality({m \in DefsOf(ast, ast[k].value) : m <= k})
  IN  CHOOSE x \in same : Cardinality({y \in same : y <= x}) = rank

\* the blank line that ends the section of top-level function k
SectionEndOf(k) == Min({e \in LabelLineOf(k)..Len(out) : out[e] = ""})

\* C9: a Return statement in F writes `jmp _exit` if F is main and `ret`
\* otherwise, whatever edges the table holds, leaves the table as it is and
\* goes on to the next statement of F; and in the finished text the section
\* of every function is its label line, the lines of its statements and one
\* more line, the epilogue.
C9_ExplicitReturn ==
  /\ [][(AtStatement /\ CurrentStmt.type = "RETURN") =>
          /\ out' = out \o <<IF ast[cur].value = "main" THEN "    jmp _exit" ELSE "    ret">>
          /\ function_calls' = function_calls
          /\ pc' = "emit" /\ cur' = cur /\ stmt' = stmt + 1]_vars
  /\ [](RunComplete =>
          \A k \in 1..Len(ast) :
            IsFunction(ast[k]) =>
              /\ SectionEndOf(k) = LabelLineOf(k) + BodyLines(BlockOf(ast[k])) + 2
              /\ LET last == out[SectionEndOf(k) - 1]
                 IN  IF ast[k].value = "main" THEN last = "    jmp _exit"
                     ELSE last = "    ret" \/ StartsWith(last, "    jmp __backto_"))

\* a `ret` has just been written for a Return in a function that has an
\* unconsumed incoming edge
C9_Witness ==
  /\ pc = "emit" /\ cur <= Len(ast) /\ stmt >= 2
  /\ BlockOf(ast[cur])[stmt - 1].type = "RETURN"
  /\ ast[cur].value # "main"
  /\ OpenEdgesTo(ast[cur].value) # {}
  /\ out[Len(out)] = "    ret"

\* the operand slots that the data-section pass looks at, in scan order:
\* the source of a Move, the parameters of a SysCall
StmtOperands(s) ==
  IF s.type = "MOVE" THEN s.right
  ELSE IF s.type = "SYS_CALL" THEN s.left
  ELSE <<>>

RECURSIVE BlockOperands(_)
BlockOperands(stmts) ==
  IF stmts = <<>> THEN <<>> ELSE StmtOperands(Head(stmts)) \o BlockOperands(Tail(stmts))

RECURSIVE Operands(_)
Operands(nodes) ==
  IF nodes = <<>> THEN <<>>
  ELSE (IF IsFunction(Head(nodes)) /\ HasBlock(Head(nodes)) THEN BlockOperands(BlockOf(Head(nodes))) ELSE <<>>)
       \o Operands(Tail(nodes))

IsQuotedString(node) == node.type = "STRING" /\ IsQuoted(node.value)

\* the quoted String operands among the first n slots
QuotedBefore(slots, n) == {m \in 1..n : IsQuotedString(slots[m])}

\* a chain with the operands of its Move and SysCall statements taken out
RECURSIVE Skeleton(_)
Skeleton(nodes) ==
  IF nodes = <<>> THEN <<>>
  ELSE <<IF Head(nodes).type \in {"MOVE", "SYS_CALL"}
         THEN [Head(nodes) EXCEPT !.left = <<>>, !.right = <<>>]
         ELSE [Head(nodes) EXCEPT !.left = Skeleton(Head(nodes).left)]>> \o Skeleton(Tail(nodes))

\* a top-level chain with the operands in the blocks of its functions taken
\* out; a statement at top level is kept whole
RECURSIVE TopSkeleton(_)
TopSkeleton(nodes) ==
  IF nodes = <<>> THEN <<>>
  ELSE <<IF IsFunction(Head(nodes))
         THEN [Head(nodes) EXCEPT !.left = Skeleton(Head(nodes).left)]
         ELSE Head(nodes)>> \o TopSkeleton(Tail(nodes))

EscapeStarts(s) ==
  {i \in 1..(Len(s) - 2) :
     /\ CharAt(s, i) = "\\"
     /\ \E j \in 0..i :
          /\ CharAt(s, j) # "\\"
          /\ \A m \in (j + 1)..i : CharAt(s, m) = "\\"
          /\ (i - j) % 2 = 1}

\* C11: the length recorded for a quoted literal is the number of
\* characters between its quotes less one for every escape pair, a pair
\* being a backslash and the character after it: 11 for "Hello World",
\* 5 for "Helo2", 3 for "a\nb".
C11_LiteralLength ==
  \A i \in 1..Len(string_infos) :
    LET s == string_infos[i].string_value
    IN  /\ IsQuoted(s) =>
             string_infos[i].length = (Len(s) - 2) - Cardinality(EscapeStarts(s))
        /\ s = "\"Hello World\"" => string_infos[i].length = 11
        /\ s = "\"Helo2\"" => string_infos[i].length = 5
        /\ s = "\"a\\nb\"" => string_infos[i].length = 3

\* a literal of an escaped backslash, an escaped quote and a plain
\* character has been recorded with length 3
C11_Witness ==
  \E i \in 1..Len(string_infos) :
    /\ string_infos[i].string_value = "\"\\\\\\\"a\""
    /\ string_infos[i].length = 3

\* the data-section pass of this run is over
AfterDataPass == pc \in {"header", "emit", "cleanup"} \/ (pc = "done" /\ out # <<>>)

\* the lines of the text that declare `label`
Declarations(text, label) == {k \in 1..Len(text) : StartsWith(text[k], "    " \o label \o " db ")}

\* C12: once the data-section pass is over, no Move source and no SysCall
\* parameter of a function block is a quoted String: the pass turns each
\* into a reference to a str_N label that is declared on exactly one line of
\* the text, the db line with the text of that very occurrence; and the
\* `mov` written later for the operand names that label.
C12_ResolvedOperands ==
  /\ [](AfterDataPass =>
          \A m \in 1..Len(Operands(ast)) :
            LET slot == Operands(ast)[m]
            IN  /\ ~IsQuotedString(slot)
                /\ slot.type = "LABEL" =>
                     /\ StartsWith(slot.value, "str_")
                     /\ Cardinality(Declarations(out, slot.value)) = 1)
  /\ [][(pc = "register" /\ cur > Len(ast)) =>
          \A m \in 1..Len(Operands(ast)) :
            IsQuotedString(Operands(ast)[m]) =>
              LET after == Operands(ast')[m]
              IN  /\ after.type = "LABEL"
                  /\ \E k \in 1..Len(out') : out'[k] = DbLine(after.value, Operands(ast)[m].value)]_vars
  /\ [][(AtStatement /\ CurrentStmt.type = "MOVE" /\ CurrentStmt.right[1].type = "LABEL") =>
          out' = out \o <<"    mov " \o translate_register(CurrentStmt.left[1].value)
                           \o ", " \o CurrentStmt.right[1].value>>]_vars
  /\ [][(AtStatement /\ CurrentStmt.type = "SYS_CALL") =>
          \A i \in 1..Len(CurrentStmt.left) :
            CurrentStmt.left[i].type = "LABEL" =>
              out'[Len(out) + i] = "    mov " \o RegMap(i - 1) \o ", " \o CurrentStmt.left[i].value]_vars

\* the move of the second of two literals of the same text has just been
\* written: it names str_1
C12_Witness ==
  /\ pc = "emit" /\ cur <= Len(ast) /\ stmt = 3
  /\ BlockOf(ast[cur])[1].type = "MOVE" /\ BlockOf(ast[cur])[1].right[1].value = "str_0"
  /\ BlockOf(ast[cur])[2].type = "MOVE" /\ BlockOf(ast[cur])[2].right[1].value = "str_1"
  /\ out[Len(out)] = "    mov eax, str_1"
  /\ \E k \in 1..Len(out) : out[k] = "    str_1 db \"a\", 0"
  /\ \E k \in 1..Len(out) : out[k] = "    str_0 db \"a\", 0"

\* the text that the `mov` of parameter p of a syscall carries as operand:
\* a number as written, a label by name, a register translated, and for
\* strlen the decimal text of a recorded length, or 0
IsOperandOf(text, p) ==
  CASE p.type = "NUMBER" -> text = p.value
    [] p.type = "LABEL" -> text = p.value /\ StartsWith(text, "str_")
    [] p.type = "STRLEN" ->
         text = "0" \/ \E j \in 1..Len(string_infos) : text = ToString(string_infos[j].length)
    [] OTHER -> text = translate_register(p.value)

\* the step writes for the syscall at hand one mov per parameter, in order
\* and into eax, ebx, ecx, edx, esi, edi, ebp, and then `int 0x80`
SysCallWritten ==
  LET params == CurrentStmt.left
      n == Len(params)
  IN  /\ Len(out') = Len(out) + n + 1
      /\ SubSeq(out', 1, Len(out)) = out
      /\ \A i \in 1..n :
           \E text \in {SubSeq(out'[Len(out) + i], 14, Len(out'[Len(out) + i]))} :
             /\ out'[Len(out) + i] =
                  "    mov " \o <<"eax", "ebx", "ecx", "edx", "esi", "edi", "ebp">>[i] \o ", " \o text
             /\ IsOperandOf(text, params[i])
      /\ out'[Len(out) + n + 1] = "    int 0x80"
      /\ (/\ n = 4 /\ params[1].value = "4" /\ params[2].value = "1"
          /\ params[3].value = "str_0" /\ params[4].type = "STRLEN"
          /\ string_infos[1].string_value = "\"Hello World\"") =>
           SubSeq(out', Len(out) + 1, Len(out')) =
             <<"    mov eax, 4", "    mov ebx, 1", "    mov ecx, str_0", "    mov edx, 11", "    int 0x80">>

\* C13: a SysCall of n parameters, n from 0 to 7, writes one
\* `mov <reg_i>, <operand_i>` per parameter in parameter order, the
\* registers being eax, ebx, ecx, edx, esi, edi, ebp, and then exactly one
\* `int 0x80`; a string parameter's operand is its label, a strlen
\* parameter's a resolved length.
C13_SysCallMoves ==
  [][(AtStatement /\ CurrentStmt.type = "SYS_CALL" /\ Len(CurrentStmt.left) <= 7) => SysCallWritten]_vars

\* the same for n from 1 to 7
C13_SysCallMovesNonEmpty ==
  [][(AtStatement /\ CurrentStmt.type = "SYS_CALL" /\ Len(CurrentStmt.left) \in 1..7) => SysCallWritten]_vars

\* parameter p is a reference to a declared literal
IsStringRef(p) == p.type = "LABEL" /\ HasStrPrefix(p.value)

\* the line that the syscall at hand gets for its parameter i
ParamLine(i) == out'[Len(out) + i]

\* the `mov` of parameter i of a syscall with the length of the literal of
\* parameter j as operand
MovLengthOf(i, j) ==
  "    mov " \o RegMap(i - 1) \o ", " \o ToString(find_string_length(string_infos, CurrentStmt.left[j].value))

\* C14: a strlen parameter of a SysCall gets the recorded length of the
\* nearest earlier parameter of the call that is a string reference; later
\* parameters and earlier strings farther away are not used.
C14_StrLenNearestEarlier ==
  [][(AtStatement /\ CurrentStmt.type = "SYS_CALL" /\ Len(CurrentStmt.left) <= 7) =>
       \A i \in 1..Len(CurrentStmt.left) :
         LET earlier == {j \in 1..(i - 1) : IsStringRef(CurrentStmt.left[j])}
         IN  (CurrentStmt.left[i].type = "STRLEN" /\ earlier # {}) =>
               ParamLine(i) = MovLengthOf(i, Max(earlier))]_vars

\* what the generator does: a strlen parameter gets the recorded length of
\* the last string reference among all the parameters of the call, those
\* after it included
C14_StrLenLastOfCall ==
  [][(AtStatement /\ CurrentStmt.type = "SYS_CALL" /\ Len(CurrentStmt.left) <= 7) =>
       \A i \in 1..Len(CurrentStmt.left) :
         LET refs == {j \in 1..Len(CurrentStmt.left) : IsStringRef(CurrentStmt.left[j])}
         IN  (CurrentStmt.left[i].type = "STRLEN" /\ refs # {}) =>
               ParamLine(i) = MovLengthOf(i, Max(refs))]_vars

\* the statements before statement `stmt` of the block at hand that are
\* Moves with a string or a label reference as source
EarlierStringMoves ==
  {j \in 1..(stmt - 1) :
     /\ BlockOf(ast[cur])[j].type = "MOVE"
     /\ BlockOf(ast[cur])[j].right[1].type \in {"STRING", "LABEL"}}

\* n is the length recorded for `label`, 0 if the table has no record of it
IsRecordedLength(n, label) ==
  IF \E i \in 1..Len(string_infos) : string_infos[i].label = label
  THEN \E i \in 1..Len(string_infos) : string_infos[i].label = label /\ string_infos[i].length = n
  ELSE n = 0

\* the generator is about to emit a Move whose source is strlen
AtStrLenMove == AtStatement /\ CurrentStmt.type = "MOVE" /\ CurrentStmt.right[1].type = "STRLEN"

\* C15: a Move whose source is strlen writes `mov <destination>, <n>`, n
\* being the length recorded for the literal of the nearest earlier Move of
\* the block whose source is a string or label reference (0 if that
\* reference has no record); statements of other kinds in between, SysCalls
\* with string parameters included, do not count.
C15_MoveStrLen ==
  [][(AtStrLenMove /\ EarlierStringMoves # {}) =>
       \E n \in {0} \cup {string_infos[i].length : i \in 1..Len(string_infos)} :
         /\ IsRecordedLength(n, BlockOf(ast[cur])[Max(EarlierStringMoves)].right[1].value)
         /\ out' = out \o <<"    mov " \o translate_register(CurrentStmt.left[1].value)
                                     \o ", " \o ToString(n)>>
         /\ err' = err]_vars

\* a strlen move that follows a move of "bb" and a syscall with "ccc" has
\* just been written with 2
C15_Witness ==
  /\ pc = "emit" /\ cur <= Len(ast) /\ stmt = 4
  /\ BlockOf(ast[cur])[1].type = "MOVE" /\ BlockOf(ast[cur])[1].right[1].value = "str_0"
  /\ BlockOf(ast[cur])[2].type = "SYS_CALL" /\ BlockOf(ast[cur])[2].left[1].value = "str_1"
  /\ BlockOf(ast[cur])[3].type = "MOVE" /\ BlockOf(ast[cur])[3].right[1].type = "STRLEN"
  /\ string_infos[1].string_value = "\"bb\""
  /\ string_infos[2].string_value = "\"ccc\""
  /\ out[Len(out)] = "    mov eax, 2"

\* the strlen parameters of the syscall at hand
StrLenParams == {i \in 1..Len(CurrentStmt.left) : CurrentStmt.left[i].type = "STRLEN"}

\* the generator is about to emit a SysCall none of whose parameters is a string
AtStringlessSysCall ==
  /\ AtStatement /\ CurrentStmt.type = "SYS_CALL"
  /\ Len(CurrentStmt.left) \in 1..7
  /\ \A i \in 1..Len(CurrentStmt.left) : CurrentStmt.left[i].type \notin {"STRING", "LABEL"}

\* generation goes on with the statement after the one at hand
GoesOn == pc' = "emit" /\ cur' = cur /\ stmt' = stmt + 1

\* C16: a strlen with no string to measure, be it the source of a Move with
\* no earlier string Move in its block or a parameter of a SysCall without
\* string parameters, makes the generator write a warning, put 0 in its
\* place, and go on with the next statement.
C16_UnresolvedStrLen ==
  /\ [][(AtStrLenMove /\ EarlierStringMoves = {}) =>
          /\ out' = out \o <<"    mov " \o translate_register(CurrentStmt.left[1].value) \o ", 0">>
          /\ err' = err \o <<"Warning: No previous string found for strlen">>
          /\ GoesOn]_vars
  /\ [][AtStringlessSysCall =>
          /\ \A i \in StrLenParams : ParamLine(i) = "    mov " \o RegMap(i - 1) \o ", 0"
          /\ err' = err \o [k \in 1..Cardinality(StrLenParams) |->
                              "Warning: No string parameter found for syscall with strlen"]
          /\ out'[Len(out')] = "    int 0x80"
          /\ GoesOn]_vars

\* a strlen move and then a syscall of strlen alone have both been written
\* with 0 and a warning each
C16_Witness ==
  /\ pc = "emit" /\ cur <= Len(ast) /\ stmt = 3
  /\ BlockOf(ast[cur])[1].type = "MOVE" /\ BlockOf(ast[cur])[1].right[1].type = "STRLEN"
  /\ BlockOf(ast[cur])[2].type = "SYS_CALL"
  /\ err = <<"Warning: No previous string found for strlen",
             "Warning: No string parameter found for syscall with strlen">>
  /\ SubSeq(out, Len(out) - 2, Len(out)) = <<"    mov eax, 0", "    mov eax, 0", "    int 0x80">>

\* the generator is about to emit a SysCall of more than 7 parameters
AtLongSysCall == AtStatement /\ CurrentStmt.type = "SYS_CALL" /\ Len(CurrentStmt.left) > 7

\* the step writes a mov for each of the first 7 parameters and for no
\* other, and then `int 0x80`
FirstSevenWritten ==
  /\ Len(out') = Len(out) + 8
  /\ SubSeq(out', 1, Len(out)) = out
  /\ \A i \in 1..7 :
       \E text \in {SubSeq(ParamLine(i), 14, Len(ParamLine(i)))} :
         /\ ParamLine(i) = "    mov " \o RegMap(i - 1) \o ", " \o text
         /\ IsOperandOf(text, CurrentStmt.left[i])
  /\ out'[Len(out) + 8] = "    int 0x80"

\* C17: a SysCall of more than 7 parameters writes moves for its first 7
\* parameters only and writes a warning diagnostic.
C17_TruncateAndWarn ==
  [][AtLongSysCall => (FirstSevenWritten /\ Len(err') > Len(err))]_vars

\* what the generator does: the first 7 parameters are written, the others
\* are passed over, and the only diagnostics are those of strlen parameters
\* among the first 7 that find no string
C17_TruncateSilently ==
  [][AtLongSysCall =>
       /\ FirstSevenWritten
       /\ \E k \in 0..7 :
            err' = err \o [j \in 1..k |-> "Warning: No string parameter found for syscall with strlen"]
       /\ (\A i \in 1..7 : CurrentStmt.left[i].type # "STRLEN") => err' = err]_vars

\* the kinds that generate_block has a case for
IsKnownKind(s) ==
  s.type \in {"MOVE", "ADD", "SUB", "COMPARE", "JUMP", "JUMP_NOT_EQUAL", "JUMP_EQUAL", "RETURN",
              "CALL", "SYS_CALL"}

\* a block, and a program, without the statements of unrecognized kind
CleanBlock(stmts) == SelectSeq(stmts, IsKnownKind)
Clean(nodes) ==
  [i \in 1..Len(nodes) |->
     IF IsFunction(nodes[i]) /\ HasBlock(nodes[i])
     THEN [nodes[i] EXCEPT !.left = <<BlockNode(CleanBlock(BlockOf(nodes[i])))>>]
     ELSE nodes[i]]

\* the place of statement k of a block among its statements of known kind
CleanIndex(stmts, k) == Cardinality({j \in 1..k : IsKnownKind(stmts[j])})

\* C18: a statement of unrecognized kind in a function block yields a
\* diagnostic with its kind and no line of text, changes no table and no
\* node, and generation goes on; and every step of the run, the first pass,
\* the data-section pass and the emission of every other statement, does
\* what it does on the program without such statements, so that all later
\* statements and functions come out as if the node were absent.
C18_UnknownKindSkipped ==
  /\ [][(AtStatement /\ ~IsKnownKind(CurrentStmt)) =>
          /\ out' = out
          /\ err' = err \o <<"Unknown AST node type: " \o ToString(TokenTypeNumber(CurrentStmt.type))>>
          /\ UNCHANGED <<ast, function_calls, string_infos, string_counter>>
          /\ GoesOn]_vars
  /\ [][(pc = "register" /\ cur <= Len(ast)) =>
          function_calls' =
            RegisterBlock([calls |-> function_calls, diag |-> <<>>], ast[cur].value,
                          CleanBlock(BlockOf(ast[cur]))).calls]_vars
  /\ [][(pc = "register" /\ cur > Len(ast)) =>
          \E r \in {collect_strings(Tables, Clean(ast))} :
            /\ out' = r.g.out
            /\ string_infos' = r.g.infos
            /\ string_counter' = r.g.counter
            /\ Clean(ast') = r.chain]_vars
  /\ [][(pc = "header") => FoundMain(Clean(ast)) = FoundMain(ast)]_vars
  /\ [][(AtStatement /\ IsKnownKind(CurrentStmt)) =>
          \E r \in {GenerateStatement(Tables, CleanBlock(BlockOf(ast[cur])),
                                      CleanIndex(BlockOf(ast[cur]), stmt), ast[cur].value)} :
            /\ out' = r.g.out
            /\ err' = r.g.err
            /\ function_calls' = r.g.calls
            /\ string_infos' = r.g.infos
            /\ string_counter' = r.g.counter
            /\ BlockOf(ast'[cur])[stmt] = r.node]_vars

\* a run has ended on a block with a node of unrecognized kind between a
\* move of a literal and a move of strlen: one diagnostic, and the strlen
\* move carries the literal's length
C18_Witness ==
  /\ RunComplete
  /\ Len(ast) >= 2
  /\ Len(BlockOf(ast[1])) = 3
  /\ BlockOf(ast[1])[1].type = "MOVE"
  /\ BlockOf(ast[1])[2] = UnknownStmt
  /\ BlockOf(ast[1])[3].type = "MOVE" /\ BlockOf(ast[1])[3].right[1].type = "STRLEN"
  /\ err = <<"Unknown AST node type: 13">>
  /\ \E k \in 1..(Len(out) - 2) :
       out[k] = "    mov eax, str_0" /\ out[k + 1] = "    mov eax, 1" /\ out[k + 2] = "    ret"

\* a declaration line of the data section
IsDbLine(line) == StartsWith(line, "    str_")

\* a line that the end of function handling writes
IsEpilogueLine(line) ==
  line = "    jmp _exit" \/ line = "    ret" \/ StartsWith(line, "    jmp __backto_")

\* the line `section .text` of the text
TextAt == Min({k \in 1..Len(out) : out[k] = "section .text"})

\* the program has a top-level function named main
HasMain == \E k \in 1..Len(ast) : IsFunction(ast[k]) /\ ast[k].value = "main"

\* the top-level functions, and the r-th of them in AST order
Functions == {k \in 1..Len(ast) : IsFunction(ast[k])}
FunctionAt(r) == CHOOSE k \in Functions : Cardinality({j \in Functions : j <= k}) = r

\* the lines of the text from a to b
Lines(a, b) == SubSeq(out, a, b)

\* the function sections of the text lie on lines a..b: as many blank lines
\* as functions, the last line blank, and the r-th stretch between blank
\* lines begins with the label line of the r-th function and ends with an
\* epilogue line
FunctionSections(a, b) ==
  LET blanks == {k \in a..b : out[k] = ""}
      EndOf(r) == CHOOSE k \in blanks : Cardinality({j \in blanks : j <= k}) = r
      StartOf(r) == IF r = 1 THEN a ELSE EndOf(r - 1) + 1
  IN  /\ Cardinality(blanks) = Cardinality(Functions)
      /\ (a <= b) => out[b] = ""
      /\ (Functions = {}) => b = a - 1
      /\ \A r \in 1..Cardinality(Functions) :
           /\ out[StartOf(r)] = ast[FunctionAt(r)].value \o ":"
           /\ EndOf(r) - 1 > StartOf(r)
           /\ IsEpilogueLine(out[EndOf(r) - 1])

\* C19: the text of a finished run is `section .data`, one declaration line
\* per interned string, a blank line, `section .text`, `global _start`, the
\* _exit stub, `_start:` with `jmp main` only if there is a main, the
\* sections of the functions in AST order, each its label line, its body,
\* an epilogue line and a blank line, and a closing `_start:` that jumps to
\* _exit only if there is no main; `_start:` stands on exactly one line and
\* no declaration line stands after `section .text`. The end of function
\* handling appends exactly one epilogue line and a blank line.
C19_Layout ==
  /\ [](RunComplete =>
          /\ out[1] = "section .data"
          /\ TextAt = Len(string_infos) + 3
          /\ \A k \in 2..(TextAt - 2) : IsDbLine(out[k])
          /\ out[TextAt - 1] = ""
          /\ Lines(TextAt, TextAt + 7) =
               <<"section .text", "global _start", "", "_exit:",
                 "    mov eax, 1      ; exit system call", "    xor ebx, ebx    ; exit code 0",
                 "    int 0x80        ; call kernel", "">>
          /\ IF HasMain
             THEN /\ Lines(TextAt + 8, TextAt + 10) =
                       <<"_start:", "    jmp main     ; Call the main function", "">>
                  /\ FunctionSections(TextAt + 11, Len(out))
             ELSE /\ FunctionSections(TextAt + 8, Len(out) - 3)
                  /\ Lines(Len(out) - 2, Len(out)) =
                       <<"_start:", "    ; No main function found, exiting directly", "    jmp _exit">>
          /\ Cardinality({k \in 1..Len(out) : out[k] = "_start:"}) = 1
          /\ \A k \in TextAt..Len(out) : ~IsDbLine(out[k]))
  /\ [][(AtEpilogue) =>
          /\ Len(out') = Len(out) + 2
          /\ IsEpilogueLine(out'[Len(out) + 1])
          /\ out'[Len(out) + 2] = ""]_vars
  /\ [][(AtStatement) =>
          \A k \in (Len(out) + 1)..Len(out') : out'[k] # "" /\ out'[k] # "_start:"]_vars

\* a run has ended on a program with a main that comes second, a literal in
\* the data section and a call between the two functions
C19_Witness ==
  /\ RunComplete
  /\ Len(ast) >= 2
  /\ IsFunction(ast[1]) /\ ast[1].value = "f"
  /\ IsFunction(ast[2]) /\ ast[2].value = "main"
  /\ Len(string_infos) >= 1
  /\ Len(function_calls) >= 1
  /\ out[2] = "    str_0 db \"a\", 0"

\* the calls of generate_nasm that have closed their file
Closed == {i \in 1..Len(runs) : runs[i].closed}

\* the chain the current call of generate_nasm was handed
Handed == runs[Len(runs)].program

\* the literals and the callees of the statements of a chain
LiteralsOf(nodes) ==
  {o.value : o \in {Operands(nodes)[i] : i \in 1..Len(Operands(nodes))}}
CalleesOf(nodes) ==
  UNION {{BlockOf(nodes[k])[j].left[1].value :
            j \in {i \in 1..Len(BlockOf(nodes[k])) : BlockOf(nodes[k])[i].type = "CALL"}} :
         k \in {i \in 1..Len(nodes) : IsFunction(nodes[i])}}

\* C20: calls of generate_nasm in one process on equal chains write equal
\* files, whatever chains the calls before were handed; in every call the
\* first string label is str_0 and the first edge has index 0; a call
\* starts its first pass with an empty edge table, and the string table and
\* the edge table it works with hold only literals and edges of its own
\* chain, with no edge consumed before the emission begins.
C20_RunsIndependent ==
  /\ [](\A i, j \in Closed : runs[i].program = runs[j].program => runs[i].text = runs[j].text)
  /\ [](pc \in {"header", "emit", "cleanup"} =>
          /\ string_infos # <<>> => string_infos[1].label = "str_0"
          /\ function_calls # <<>> =>
               function_calls[1].return_label = "__backto_" \o function_calls[1].caller_func \o "_0"
          /\ \A i \in 1..Len(string_infos) : string_infos[i].string_value \in LiteralsOf(Handed)
          /\ \A i \in 1..Len(function_calls) : function_calls[i].callee_func \in CalleesOf(Handed))
  /\ []((pc = "register" /\ cur = 1) => function_calls = <<>>)
  /\ [](pc = "header" => \A i \in 1..Len(function_calls) : function_calls[i].used = 0)

\* three calls have closed their files: the first and the third were handed
\* the same chain with literals, the second another chain with literals and
\* the files of the first and the third declare str_0
C20_Witness ==
  /\ Len(runs) = 3
  /\ Closed = {1, 2, 3}
  /\ runs[1].program = runs[3].program
  /\ runs[2].program # runs[1].program
  /\ runs[1].program = <<LabelNode("f", <<SysCallStmt(<<StringBB>>)>>)>>
  /\ runs[2].program = <<LabelNode("f", <<SysCallStmt(<<StringA, StringBB, StrLenNode>>)>>)>>
  /\ runs[3].text[2] = "    str_0 db \"bb\", 0"
  /\ runs[1].text = runs[3].text

\* the diagnostic of a failed fopen
OpenFailure == "Failed to open output file: out.asm"

\* C21: when the output file cannot be opened the generator writes the
\* diagnostic and returns: no line of output, the chain, the string table,
\* the edge table and the counter as they were, and nothing is written in
\* the rest of that call.
C21_FailedOpen ==
  /\ [][(pc = "parse" /\ err' # err) =>
          /\ err' = err \o <<OpenFailure>>
          /\ pc' = "done"
          /\ UNCHANGED <<ast, function_calls, string_infos, string_counter, out, cur, stmt, runs>>]_vars
  /\ [](\E i \in 1..Len(err) : err[i] = OpenFailure) => (pc = "done" /\ out = <<>>)

\* a call on a chain with literals has failed to open its file, after a
\* call that left the counter at 2: the literals are still strings
C21_Witness ==
  /\ pc = "done"
  /\ err = <<OpenFailure>>
  /\ out = <<>>
  /\ ast = <<LabelNode("f", <<SysCallStmt(<<StringA, StringBB, StrLenNode>>)>>)>>
  /\ string_counter = 2
  /\ Len(runs) = 1

\* the table of the claim: logical names and physical registers, in order
Logical == <<"&1", "&2", "&3", "&4", "&5", "&6", "&7">>
Physical == <<"eax", "ebx", "ecx", "edx", "esi", "edi", "ebp">>
PhysicalOf(text) ==
  IF \E i \in 1..Len(Logical) : Logical[i] = text
  THEN Physical[CHOOSE i \in 1..Len(Logical) : Logical[i] = text]
  ELSE text

\* C22: a move or an add between two operands writes each operand as the
\* physical register of the table when its text is one of &1..&7 and as its
\* own text otherwise, and the seven logical names go to seven different
\* registers.
C22_RegisterTable ==
  /\ [][(AtStatement /\ CurrentStmt.type \in {"MOVE", "ADD"}) =>
          out' = out \o <<"    " \o (IF CurrentStmt.type = "MOVE" THEN "mov" ELSE "add") \o " "
                             \o PhysicalOf(CurrentStmt.left[1].value) \o ", "
                             \o PhysicalOf(CurrentStmt.right[1].value)>>]_vars
  /\ [](Cardinality({translate_register(Logical[i]) : i \in 1..Len(Logical)}) = Len(Logical))

\* a move from &7 to a name that begins like &1 has been written
C22_Witness ==
  /\ RunComplete
  /\ \E k \in 1..Len(out) : out[k] = "    mov &17, ebp"

\* the records of the edge table without their consumed flags
EdgeRecords(calls) ==
  [i \in 1..Len(calls) |-> <<calls[i].caller_func, calls[i].callee_func, calls[i].return_label>>]

\* the edge of the call statement that is about to be emitted
EdgeOfCall ==
  {i \in 1..Len(function_calls) : /\ function_calls[i].caller_func = ast[cur].value
                                  /\ function_calls[i].callee_func = CurrentStmt.left[1].value}
AtCall == AtStatement /\ CurrentStmt.type = "CALL" /\ CurrentStmt.left # <<>>

\* C23 as stated: every call statement that is emitted finds its edge in
\* the table.
C23_EveryCallFindsEdge == [][AtCall => EdgeOfCall # {}]_vars

\* C23: no step that writes output changes the records of the edge table
\* other than their consumed flags; when the first line is written every
\* call of the chain has its edge in the table unless the table is full;
\* an emitted call whose edge is in the table writes the jump and the label
\* of that edge, and one whose edge is not, the table being full, writes
\* the jump, `__error_label:` and the diagnostic of a full table.
C23_TwoPasses ==
  /\ [][(out' # out) => EdgeRecords(function_calls') = EdgeRecords(function_calls)]_vars
  /\ [][(out = <<>> /\ out' # <<>>) =>
          \A p \in {CallPairs(ast)[k] : k \in 1..Len(CallPairs(ast))} :
            \/ \E i \in 1..Len(function_calls) :
                 function_calls[i].caller_func = p[1] /\ function_calls[i].callee_func = p[2]
            \/ Len(function_calls) = MAX_CALLS]_vars
  /\ [][AtCall =>
          IF EdgeOfCall # {}
          THEN /\ out' = out \o <<"    jmp " \o CurrentStmt.left[1].value,
                                  function_calls[Min(EdgeOfCall)].return_label \o ":">>
               /\ err' = err
          ELSE /\ Len(function_calls) = MAX_CALLS
               /\ out' = out \o <<"    jmp " \o CurrentStmt.left[1].value, "__error_label:">>
               /\ err' = err \o <<"Too many function calls!">>]_vars

\* the long program has been emitted: its last call found no edge in the
\* full table
C23_Witness ==
  /\ RunComplete
  /\ Len(ast) = 11
  /\ Len(function_calls) = 100
  /\ out[Len(out) - 6] = "    jmp f1"
  /\ out[Len(out) - 5] = "__error_label:"
  /\ err = <<"Too many function calls!", "Too many function calls!">>

\* the call statements of the chain that belong to the pair of edge i
StatementsOfEdge(i) ==
  {k \in 1..Len(CallPairs(ast)) :
     CallPairs(ast)[k] = <<function_calls[i].caller_func, function_calls[i].callee_func>>}

\* C24 as stated: in the finished text the return label of every edge is
\* defined on exactly one line.
C24_LabelDefinedOnce ==
  RunComplete =>
    \A i \in 1..Len(function_calls) : Cardinality(Defs(out, function_calls[i].return_label)) = 1

\* what holds instead: the return label of an edge is defined once for each
\* call statement of its pair, so more than once when a function has
\* several calls to one callee or the caller is defined several times
C24_LabelDefinedPerCall ==
  RunComplete =>
    \A i \in 1..Len(function_calls) :
      Cardinality(Defs(out, function_calls[i].return_label)) = Cardinality(StatementsOfEdge(i))

\* the lines of the text that jump back to a return label
JumpBacks == {k \in 1..Len(out) : StartsWith(out[k], "    jmp __backto_")}

\* line m of the text defines the label that line k jumps to, right after
\* a jump to a function in whose section line k lies: a call site of it
IsLandingOf(m, k) ==
  /\ m > 1
  /\ out[m] = JumpTarget(out[k]) \o ":"
  /\ StartsWith(out[m - 1], "    jmp ")
  /\ InSection(out, JumpTarget(out[m - 1]), k)

\* C25: in the finished text every jump back to a return label has a line
\* that defines the label right after a jump to the function the jump back
\* ends.
C25_JumpBackDefined == RunComplete => \A k \in JumpBacks : \E m \in 1..Len(out) : IsLandingOf(m, k)

\* a callee stands before its caller: the jump back is written before the
\* call site that defines its label
C25_Witness ==
  /\ RunComplete
  /\ \E k \in JumpBacks : \E m \in 1..Len(out) : IsLandingOf(m, k) /\ m > k

\* the addresses of a chain in h, from its head along next
RECURSIVE ChainFrom(_, _)
ChainFrom(h, c) == IF c = 0 THEN <<>> ELSE <<c>> \o ChainFrom(h, h[c].next)

\* the addresses reached from c along prev, c itself not included
RECURSIVE PrevWalk(_, _)
PrevWalk(h, c) == IF h[c].prev = 0 THEN <<>> ELSE <<h[c].prev>> \o PrevWalk(h, h[c].prev)

\* the chains that the generator walks: the top-level chain and the
\* statement chain of every LABEL whose left is a LBRACE
WalkedChains(h) ==
  {ChainFrom(h, 1)} \cup
  {ChainFrom(h, h[h[n].left].left) :
     n \in {m \in 1..Len(h) : h[m].type = "LABEL" /\ h[m].left # 0 /\ h[h[m].left].type = "LBRACE"}}

\* the reverse of a sequence
Reversed(s) == [i \in 1..Len(s) |-> s[Len(s) + 1 - i]]

HasLiteral(nodes) == \E i \in 1..Len(Operands(nodes)) : IsQuotedString(Operands(nodes)[i])

\* C27 as stated: all the calls of generate_nasm on one chain write the
\* same file.
C27_RerunSameOutput == \A i, j \in Closed : runs[i].text = runs[j].text

\* C27: a second call on the chain that a first call has worked on writes
\* the file of the first call if and only if the chain had no quoted string
\* operand when the first call got it; if it had, the second call finds
\* labels where the literals were, declares nothing in the data section
\* and writes the order `section .data`, blank line, `section .text`; all
\* later calls write the file of the second.
C27_RerunSameIffNoLiteral ==
  \A i \in Closed :
    i > 1 =>
      /\ (runs[i].text = runs[1].text) <=> ~HasLiteral(runs[1].program)
      /\ runs[i].text = runs[2].text
      /\ SubSeq(runs[i].text, 1, 3) = <<"section .data", "", "section .text">>
      /\ ~HasLiteral(runs[i].program)

\* two calls on a chain with a literal and a strlen Move have closed their
\* files: the first declares str_0 and moves the length 1, the second
\* declares nothing and moves 0
C27_Witness ==
  /\ Closed = {1, 2}
  /\ runs[1].program = <<LabelNode("f", <<MoveStmt(Reg1, StringA), MoveStmt(Reg1, StrLenNode)>>)>>
  /\ runs[1].text[2] = "    str_0 db \"a\", 0"
  /\ \E k \in 1..Len(runs[1].text) : runs[1].text[k] = "    mov eax, 1"
  /\ \E k \in 1..Len(runs[2].text) : runs[2].text[k] = "    mov eax, str_0"
  /\ \E k \in 1..Len(runs[2].text) : runs[2].text[k] = "    mov eax, 0"

\* the backward search of the strlen Move at hand ends without a recorded
\* length: no candidate, or a candidate whose text is no label of the table
NoRecordedLength ==
  \/ EarlierStringMoves = {}
  \/ \A i \in 1..Len(string_infos) :
       string_infos[i].label # BlockOf(ast[cur])[Max(EarlierStringMoves)].right[1].value

\* C28 as stated: a strlen Move for which no recorded length is found
\* writes a warning.
C28_NoSilentZero == [][(AtStrLenMove /\ NoRecordedLength) => Len(err') > Len(err)]_vars

\* what holds instead: such a Move writes 0, and the warning only when the
\* search found no candidate at all; with a plain label as candidate it
\* writes 0 and no diagnostic
C28_WarningOnlyWithoutCandidate ==
  [][(AtStrLenMove /\ NoRecordedLength) =>
       /\ out' = out \o <<"    mov " \o translate_register(CurrentStmt.left[1].value) \o ", 0">>
       /\ IF EarlierStringMoves = {}
          THEN err' = err \o <<"Warning: No previous string found for strlen">>
          ELSE err' = err]_vars

\* the quoted string operands of the chain that was handed to the call
LiteralCount == Cardinality({i \in 1..Len(Operands(Handed)) : IsQuotedString(Operands(Handed)[i])})

\* a line of the text holds the null label
UsesNullLabel(text) == \E k \in 1..Len(text) : \E i \in 1..(Len(text[k]) - 5) : SubSeq(text[k], i, i + 5) = "(null)"

\* C29 as stated: the string table never holds more than 100 entries, and
\* a call on a program with more literals than that does not die and
\* writes no line with the null label.
C29_OverflowHandled ==
  /\ Len(string_infos) <= 100
  /\ (runs # <<>> /\ LiteralCount > 100) => (pc # "crashed" /\ ~UsesNullLabel(out))

\* what holds instead: the table never holds more than 100 entries, but
\* the data-section pass of a program with more literals either dies
\* or declares the excess literal under the null label; with at most 100
\* literals neither happens
C29_OverflowBreaks ==
  /\ [](Len(string_infos) <= 100)
  /\ [][(pc = "register" /\ pc' # "register") =>
          IF LiteralCount > 100
          THEN pc' = "crashed" \/ (pc' = "header" /\ UsesNullLabel(out'))
          ELSE pc' = "header" /\ ~UsesNullLabel(out') /\ err' = err]_vars

\* a character of a run: a letter, a digit or an underscore
RunChar(c) == isalnum(c) \/ c = "_"

\* the maximal runs of letters, digits and underscores of s that start
\* with a letter, as pairs of first and last place
LetterRuns(s) ==
  {r \in (1..Len(s)) \X (1..Len(s)) :
     /\ r[1] <= r[2]
     /\ isalpha(SourceChar(s, r[1]))
     /\ \A p \in r[1]..r[2] : RunChar(SourceChar(s, p))
     /\ ~RunChar(SourceChar(s, r[1] - 1 + (IF r[1] = 1 THEN Len(s) + 1 ELSE 0)))
     /\ ~RunChar(SourceChar(s, r[2] + 1))}

KeywordWords == {Keywords[k].word : k \in 1..Len(Keywords)}
KeywordType(word) == Keywords[CHOOSE k \in 1..Len(Keywords) : Keywords[k].word = word].type

\* the tokens that begin inside the run r
TokensIn(l, r) == {k \in 1..Len(l.head) : l.head[k].column \in r[1]..r[2]}

\* the run r of l.source_code has become exactly one token carrying it
OneToken(l, r) ==
  /\ Cardinality(TokensIn(l, r)) = 1
  /\ \A k \in TokensIn(l, r) :
       /\ l.head[k].column = r[1]
       /\ l.head[k].value = SubSeq(l.source_code, r[1], r[2])
       /\ l.head[k].type = (IF l.head[k].value \in KeywordWords THEN KeywordType(l.head[k].value)
                           ELSE l.head[k].type)
       /\ l.head[k].value \notin KeywordWords => l.head[k].type \in {"LABEL", "IDENTIFIER"}

Lexed == lex.source_code # "" /\ lex.i >= Len(lex.source_code)

\* C30 as stated: once the lexer has returned, every maximal run of
\* letters, digits and underscores that starts with a letter is exactly one
\* token: the keyword's when the run equals a keyword, else one LABEL or
\* IDENTIFIER token carrying the run.
C30_RunIsOneToken ==
  Lexed => \A r \in LetterRuns(lex.source_code) : OneToken(lex, r)

\* a keyword other than func stands at the head of the run and an
\* underscore follows it
KeywordThenUnderscore(run) ==
  \E k \in 1..Len(Keywords) :
    /\ Keywords[k].word # "func"
    /\ Strncmp(run, 1, Keywords[k].word)
    /\ SourceChar(run, Len(Keywords[k].word) + 1) = "_"

\* what holds instead: a run that no `&` touches is one token unless a
\* keyword followed by an underscore stands at its head, or it is `func`
\* with something other than white space after it; jump_not_equal and
\* jump_equal standing alone are one keyword token each
C30_SplitAfterKeyword ==
  Lexed =>
    \A r \in LetterRuns(lex.source_code) :
      (SourceChar(lex.source_code, r[2] + 1) # "&" /\ (r[1] = 1 \/ SourceChar(lex.source_code, r[1] - 1) # "&"))
        => LET run == SubSeq(lex.source_code, r[1], r[2]) IN
           /\ OneToken(lex, r) <=>
                ~(\/ KeywordThenUnderscore(run) /\ run \notin {"jump_not_equal", "jump_equal"}
                  \/ run = "func" /\ r[2] < Len(lex.source_code) /\ ~isspace(SourceChar(lex.source_code, r[2] + 1)))
           /\ run \in {"jump_not_equal", "jump_equal"} => OneToken(lex, r)

====
